---- MODULE Spec2Model ----
(***************************************************************************)
(* Model of go-oracle-procedures: the stored-procedure engine              *)
(* OracleRepository.CallProcedure (bind, execute, normalise) over a        *)
(* database handle whose answers are chosen by the environment, and,       *)
(* each under a specification of its own, row materialization              *)
(* (processRowsResult), the binding of one input parameter                 *)
(* (convertInputValue), the two HTTP handlers with the service behind      *)
(* them, OracleRepository.GetProcedureInfo, and interleaved                *)
(* invocations of CallProcedure on the same repository.                    *)
(*                                                                         *)
(* Go strings are sequences of one-character strings, so that ToUpper,     *)
(* Sprintf and substring tests are computed rather than assumed.  Go       *)
(* values of dynamic type (any) are records [t |-> type tag, v |-> value]. *)
(***************************************************************************)
EXTENDS Integers, Sequences, FiniteSets, TLC

\* OracleRepository.CallProcedure: one invocation.  ctxDoneAt is the step the
\* call was in when the caller's context was cancelled ("none" while it is live);
\* closedRows are the cursor destinations whose row set has been closed.
VARIABLES pc, name, params, args, outputParams, query, execArgs, execCount,
          dbErr, dbOut, destReads, closedRows, result, err, ctxDoneAt

repoVars == <<pc, name, params, args, outputParams, query, execArgs, execCount,
              dbErr, dbOut, destReads, closedRows, result, err, ctxDoneAt>>

\* processRowsResult: the row set it is given, how far it was read, whether it
\* was closed, and what was returned.
VARIABLES rowsPc, rows, fetched, closed, rowsResult, rowsErr

rowsVars == <<rowsPc, rows, fetched, closed, rowsResult, rowsErr>>

\* The binding of one input parameter: the parameter, the argument bound for it
\* and the Binder's error.
VARIABLES convPc, param, bound, bindErr

convVars == <<convPc, param, bound, bindErr>>

\* One HTTP request: the method and path it came in with when it came through the
\* router, the route and body received, the request decoded from it, the
\* invocations of the service and of the repository, what the repository and
\* the service returned, and the response written.
VARIABLES httpPc, httpMethod, path, route, body, req, svcCalls, repoCalls, repoRet,
          svcRet, resp

httpVars == <<httpPc, httpMethod, path, route, body, req, svcCalls, repoCalls, repoRet,
              svcRet, resp>>

\* OracleRepository.GetProcedureInfo: the name asked for, what the catalog query
\* answers, the arguments the query was run with, whether the row set of the
\* query is open, and what was returned.
VARIABLES infoPc, procedureName, catalog, queryArgs, infoRowsOpen, infoResult, infoErr

infoVars == <<infoPc, procedureName, catalog, queryArgs, infoRowsOpen, infoResult,
              infoErr>>

\* Concurrent invocations of CallProcedure on one repository: the locals of each.
VARIABLES calls

pairVars == <<calls>>

layerVars == <<rowsVars, convVars, httpVars, infoVars, pairVars>>

vars == <<repoVars, layerVars>>

\* ------------------------------------------------------------ bounds
\* The longest parameter list of one call.
MaxParams == 2

\* ------------------------------------------------------------ strings
LowerLetters == <<"a","b","c","d","e","f","g","h","i","j","k","l","m","n","o","p","q","r","s","t","u","v","w","x","y","z">>

UpperLetters == <<"A","B","C","D","E","F","G","H","I","J","K","L","M","N","O","P","Q","R","S","T","U","V","W","X","Y","Z">>

Digits == <<"0","1","2","3","4","5","6","7","8","9">>

IndexIn(c, s) == IF \E i \in DOMAIN s : s[i] = c
                 THEN CHOOSE i \in DOMAIN s : s[i] = c
                 ELSE 0

Letters == {LowerLetters[i] : i \in DOMAIN LowerLetters} \cup {UpperLetters[i] : i \in DOMAIN UpperLetters}

\* The upper-case and lower-case forms of the ASCII letters.
UpperOf == [c \in Letters |-> IF IndexIn(c, LowerLetters) > 0
                              THEN UpperLetters[IndexIn(c, LowerLetters)] ELSE c]

LowerOf == [c \in Letters |-> IF IndexIn(c, UpperLetters) > 0
                              THEN LowerLetters[IndexIn(c, UpperLetters)] ELSE c]

\* strings.ToUpper on one character: only letters change.
UpperChar(c) == IF c \in Letters THEN UpperOf[c] ELSE c

\* strings.ToLower on one character: only letters change.
LowerChar(c) == IF c \in Letters THEN LowerOf[c] ELSE c

ToUpper(s) == [i \in DOMAIN s |-> UpperChar(s[i])]

ToLower(s) == [i \in DOMAIN s |-> LowerChar(s[i])]

\* strings.Contains: sub occurs in s as a contiguous run of characters.
Contains(s, sub) ==
    \E k \in 0..(Len(s) - Len(sub)) :
        \A j \in 1..Len(sub) : s[k + j] = sub[j]

\* ------------------------------------------------------------ Go values
GoNil == [t |-> "nil", v |-> 0]

GoString(s) == [t |-> "string", v |-> s]

GoInt(n) == [t |-> "int", v |-> n]

GoFloat64(n) == [t |-> "float64", v |-> n]

GoBool(b) == [t |-> "bool", v |-> b]

GoBytes(s) == [t |-> "bytes", v |-> s]

GoTime(s) == [t |-> "time", v |-> s]

GoRows(rs) == [t |-> "rows", v |-> rs]

\* ------------------------------------------------------------ errors
NoError == [kind |-> "none", text |-> <<>>, cause |-> <<>>]

\* fmt.Errorf with a fixed prefix and one %s / %w operand.
Errorf(kind, prefix, operand, suffix, cause) ==
    [kind |-> kind, text |-> prefix \o operand \o suffix \o cause, cause |-> cause]

\* ------------------------------------------------------------ declared types
NumericTypes == {<<"N","U","M","B","E","R">>, <<"I","N","T","E","G","E","R">>, <<"I","N","T">>, <<"F","L","O","A","T">>, <<"D","O","U","B","L","E">>}

TextTypes == {<<"V","A","R","C","H","A","R","2">>, <<"V","A","R","C","H","A","R">>, <<"C","H","A","R">>, <<"C","L","O","B">>, <<"N","V","A","R","C","H","A","R","2">>, <<"N","C","H","A","R">>, <<"N","C","L","O","B">>}

TemporalTypes == {<<"D","A","T","E">>, <<"T","I","M","E","S","T","A","M","P">>, <<"T","I","M","E","S","T","A","M","P"," ","W","I","T","H"," ","T","I","M","E"," ","Z","O","N","E">>, <<"T","I","M","E","S","T","A","M","P"," ","W","I","T","H"," ","L","O","C","A","L"," ","T","I","M","E"," ","Z","O","N","E">>}

BooleanTypes == {<<"B","O","O","L","E","A","N">>}

BinaryTypes == {<<"R","A","W">>, <<"B","L","O","B">>}

\* The two spellings CallProcedure and processOutputParameters compare with.
CursorTypes == {<<"R","E","F"," ","C","U","R","S","O","R">>, <<"S","Y","S","_","R","E","F","C","U","R","S","O","R">>}

IsCursorType(T) == ToUpper(T) \in CursorTypes

\* ------------------------------------------------------------ conversions
IsDigits(s) == Len(s) > 0 /\ \A i \in DOMAIN s : IndexIn(s[i], Digits) > 0

RECURSIVE DecValue(_)
DecValue(s) == IF s = <<>> THEN 0
               ELSE 10 * DecValue(SubSeq(s, 1, Len(s) - 1)) + (IndexIn(s[Len(s)], Digits) - 1)

\* strconv.ParseFloat(s, 64), for decimal integers with an optional sign; any
\* other text is a parse failure here.
ParseFloatOk(s) == \/ IsDigits(s)
                   \/ Len(s) > 1 /\ s[1] \in {"+", "-"} /\ IsDigits(Tail(s))

ParseFloat(s) == IF IsDigits(s) THEN DecValue(s)
                 ELSE IF s[1] = "-" THEN 0 - DecValue(Tail(s))
                 ELSE DecValue(Tail(s))

RECURSIVE NatText(_)
NatText(n) == IF n < 10 THEN <<Digits[n + 1]>>
              ELSE NatText(n \div 10) \o <<Digits[(n % 10) + 1]>>

IntText(n) == IF n < 0 THEN <<"-">> \o NatText(0 - n) ELSE NatText(n)

\* A time.Time: calendar fields and the zone offset in minutes east of UTC.
Time(Y, M, D, h, m, s, off) ==
    [year |-> Y, month |-> M, day |-> D, hour |-> h, minute |-> m, second |-> s, offset |-> off]

TwoDigits(s, i) == 10 * (IndexIn(s[i], Digits) - 1) + (IndexIn(s[i + 1], Digits) - 1)

\* time.Parse(time.RFC3339, s) for the form YYYY-MM-DDTHH:MM:SSZ; any other text
\* is a parse failure here.
ParseTimeOk(s) ==
    /\ Len(s) = 20
    /\ \A i \in {1, 2, 3, 4, 6, 7, 9, 10, 12, 13, 15, 16, 18, 19} : IndexIn(s[i], Digits) > 0
    /\ s[5] = "-" /\ s[8] = "-" /\ s[11] = "T" /\ s[14] = ":" /\ s[17] = ":" /\ s[20] = "Z"
    /\ TwoDigits(s, 6) \in 1..12 /\ TwoDigits(s, 9) \in 1..31
    /\ TwoDigits(s, 12) \in 0..23 /\ TwoDigits(s, 15) \in 0..59 /\ TwoDigits(s, 18) \in 0..59

ParseTime(s) ==
    Time(100 * TwoDigits(s, 1) + TwoDigits(s, 3), TwoDigits(s, 6), TwoDigits(s, 9),
         TwoDigits(s, 12), TwoDigits(s, 15), TwoDigits(s, 18), 0)

\* A number in at least two digits ("05").
Pad2(n) == IF n < 10 THEN <<"0">> \o NatText(n) ELSE NatText(n)

\* A year in at least four digits ("0001").
Pad4(n) == IF n < 100 THEN <<"0","0">> \o Pad2(n)
           ELSE IF n < 1000 THEN <<"0">> \o NatText(n) ELSE NatText(n)

\* The zone of RFC 3339: "Z" for UTC, otherwise the signed offset hh:mm.
ZoneText(off) ==
    IF off = 0 THEN <<"Z">>
    ELSE (IF off < 0 THEN <<"-">> ELSE <<"+">>)
             \o Pad2((IF off < 0 THEN 0 - off ELSE off) \div 60) \o <<":">>
             \o Pad2((IF off < 0 THEN 0 - off ELSE off) % 60)

\* t.Format(time.RFC3339): layout 2006-01-02T15:04:05Z07:00.
FormatRFC3339(t) ==
    Pad4(t.year) \o <<"-">> \o Pad2(t.month) \o <<"-">> \o Pad2(t.day) \o <<"T">>
        \o Pad2(t.hour) \o <<":">> \o Pad2(t.minute) \o <<":">> \o Pad2(t.second)
        \o ZoneText(t.offset)

\* fmt.Sprintf("%v", v) for nil, strings, booleans and whole numbers.
SprintfV(v) ==
    CASE v.t = "string" -> v.v
      [] v.t = "nil" -> <<"<","n","i","l",">">>
      [] v.t = "bool" -> IF v.v THEN <<"t","r","u","e">> ELSE <<"f","a","l","s","e">>
      [] v.t \in {"int", "int64", "float64"} -> IntText(v.v)

\* convertInputValue with a slip: a numeric string that does not parse is bound
\* as the float zero.
convertInputValue_ZeroOnParseFailure(p) ==
    LET T == ToUpper(p.Type)
        v == p.Value
    IN  CASE T \in NumericTypes ->
                 CASE v.t = "float64" -> v
                   [] v.t \in {"int", "int64"} -> GoFloat64(v.v)
                   [] v.t = "string" -> IF ParseFloatOk(v.v) THEN GoFloat64(ParseFloat(v.v))
                                        ELSE GoFloat64(0)
                   [] OTHER -> v
          [] T \in TextTypes -> GoString(SprintfV(v))
          [] T \in TemporalTypes ->
                 CASE v.t = "string" -> IF ParseTimeOk(v.v) THEN GoTime(ParseTime(v.v)) ELSE v
                   [] OTHER -> v
          [] T \in BooleanTypes ->
                 CASE v.t = "bool" -> v
                   [] v.t = "string" -> GoBool(ToLower(v.v) = <<"t","r","u","e">> \/ v.v = <<"1">>)
                   \* v != 0 compares the interface value with int(0)
                   [] v.t \in {"int", "int64", "float64"} -> GoBool(~(v.t = "int" /\ v.v = 0))
                   [] OTHER -> GoBool(FALSE)
          [] T \in BinaryTypes ->
                 CASE v.t = "string" -> GoBytes(v.v)
                   [] OTHER -> v
          [] OTHER -> v

\* convertInputValue: the Go value bound for the input side of a parameter.
convertInputValue(p) ==
    LET T == ToUpper(p.Type)
        v == p.Value
    IN  CASE T \in NumericTypes ->
                 CASE v.t = "float64" -> v
                   [] v.t \in {"int", "int64"} -> GoFloat64(v.v)
                   [] v.t = "string" -> IF ParseFloatOk(v.v) THEN GoFloat64(ParseFloat(v.v)) ELSE v
                   [] OTHER -> v
          [] T \in TextTypes -> GoString(SprintfV(v))
          [] T \in TemporalTypes ->
                 CASE v.t = "string" -> IF ParseTimeOk(v.v) THEN GoTime(ParseTime(v.v)) ELSE v
                   [] OTHER -> v
          [] T \in BooleanTypes ->
                 CASE v.t = "bool" -> v
                   [] v.t = "string" -> GoBool(ToLower(v.v) = <<"t","r","u","e">> \/ v.v = <<"1">>)
                   \* v != 0 compares the interface value with int(0)
                   [] v.t \in {"int", "int64", "float64"} -> GoBool(~(v.t = "int" /\ v.v = 0))
                   [] OTHER -> GoBool(FALSE)
          [] T \in BinaryTypes ->
                 CASE v.t = "string" -> GoBytes(v.v)
                   [] OTHER -> v
          [] OTHER -> v

\* createOutputParameter: the go_ora.Out destination allocated for a declared type.
createOutputParameter(p) ==
    LET T == ToUpper(p.Type)
    IN  CASE T \in NumericTypes -> [Dest |-> "NullFloat64", Size |-> 0]
          [] T \in TextTypes -> [Dest |-> "NullString", Size |-> 4000]
          [] T \in TemporalTypes -> [Dest |-> "NullTime", Size |-> 0]
          [] T \in BooleanTypes -> [Dest |-> "bool", Size |-> 0]
          [] T \in BinaryTypes -> [Dest |-> "bytes", Size |-> 4000]
          [] OTHER -> [Dest |-> "any", Size |-> 0]

\* ------------------------------------------------------------ Parameter Binder
\* sql.Named(p.Name, value): a plain input value.
NamedIn(p) == [Name |-> p.Name, Form |-> "In", In |-> convertInputValue(p),
               Dest |-> "none", Size |-> 0, Ptr |-> 0]

\* sql.Named(p.Name, go_ora.Out{Dest: &cursor}) for a cursor-typed OUT parameter.
NamedCursor(p, i) == [Name |-> p.Name, Form |-> "Out", In |-> GoNil,
                      Dest |-> "RefCursor", Size |-> 0, Ptr |-> i]

\* sql.Named(p.Name, createOutputParameter(p)).
NamedOut(p, i) == [Name |-> p.Name, Form |-> "Out", In |-> GoNil,
                   Dest |-> createOutputParameter(p).Dest,
                   Size |-> createOutputParameter(p).Size, Ptr |-> i]

\* An INOUT binding that keeps only the output side.
NamedInOut_InputDropped(p, i) == [Name |-> p.Name, Form |-> "InOutStruct", In |-> GoNil,
                                  Dest |-> createOutputParameter(p).Dest,
                                  Size |-> createOutputParameter(p).Size, Ptr |-> i]

\* sql.Named(p.Name, struct{In; Out}{inputValue, outParam}).
NamedInOut(p, i) == [Name |-> p.Name, Form |-> "InOutStruct", In |-> convertInputValue(p),
                     Dest |-> createOutputParameter(p).Dest,
                     Size |-> createOutputParameter(p).Size, Ptr |-> i]

\* outputParams[p.Name] = dest: the map entry is replaced when the name repeats.
PutDest(outs, a) ==
    [n \in DOMAIN outs \cup {a.Name} |->
        IF n = a.Name THEN [Dest |-> a.Dest, Ptr |-> a.Ptr] ELSE outs[n]]

EmptyMap == [n \in {} |-> 0]

\* BindOne with a slip: the error of an unsupported direction leaves the direction out.
BindOne_ErrorOmitsDirection(p, i) ==
    LET D == ToUpper(p.Direction)
    IN  CASE D = <<"I","N">> -> [err |-> NoError, arg |-> NamedIn(p), reg |-> FALSE]
          [] D = <<"O","U","T">> ->
                IF IsCursorType(p.Type)
                THEN [err |-> NoError, arg |-> NamedCursor(p, i), reg |-> TRUE]
                ELSE [err |-> NoError, arg |-> NamedOut(p, i), reg |-> TRUE]
          [] D = <<"I","N","O","U","T">> ->
                IF IsCursorType(p.Type)
                THEN [err |-> Errorf("config", <<"R","E","F"," ","C","U","R","S","O","R"," ","c","a","n","n","o","t"," ","b","e"," ","u","s","e","d"," ","a","s"," ","I","N","O","U","T"," ","p","a","r","a","m","e","t","e","r">>,
                                     <<>>, <<>>, <<>>),
                      arg |-> NamedIn(p), reg |-> FALSE]
                ELSE [err |-> NoError, arg |-> NamedInOut(p, i), reg |-> TRUE]
          [] OTHER ->
                [err |-> Errorf("config", <<"u","n","s","u","p","p","o","r","t","e","d"," ","p","a","r","a","m","e","t","e","r"," ","d","i","r","e","c","t","i","o","n">>,
                                <<>>, <<>>, <<>>),
                 arg |-> NamedIn(p), reg |-> FALSE]

\* BindOne with a slip: the direction is compared as written, without ToUpper.
BindOne_CaseSensitive(p, i) ==
    LET D == p.Direction
    IN  CASE D = <<"I","N">> -> [err |-> NoError, arg |-> NamedIn(p), reg |-> FALSE]
          [] D = <<"O","U","T">> ->
                IF IsCursorType(p.Type)
                THEN [err |-> NoError, arg |-> NamedCursor(p, i), reg |-> TRUE]
                ELSE [err |-> NoError, arg |-> NamedOut(p, i), reg |-> TRUE]
          [] D = <<"I","N","O","U","T">> ->
                IF IsCursorType(p.Type)
                THEN [err |-> Errorf("config", <<"R","E","F"," ","C","U","R","S","O","R"," ","c","a","n","n","o","t"," ","b","e"," ","u","s","e","d"," ","a","s"," ","I","N","O","U","T"," ","p","a","r","a","m","e","t","e","r">>,
                                     <<>>, <<>>, <<>>),
                      arg |-> NamedIn(p), reg |-> FALSE]
                ELSE [err |-> NoError, arg |-> NamedInOut(p, i), reg |-> TRUE]
          [] OTHER ->
                [err |-> Errorf("config", <<"u","n","s","u","p","p","o","r","t","e","d"," ","p","a","r","a","m","e","t","e","r"," ","d","i","r","e","c","t","i","o","n",":"," ">>,
                                p.Direction, <<>>, <<>>),
                 arg |-> NamedIn(p), reg |-> FALSE]

\* One pass of the binding loop: the switch on strings.ToUpper(p.Direction).  reg
\* says whether the destination is stored in outputParams.
BindOne(p, i) ==
    LET D == ToUpper(p.Direction)
    IN  CASE D = <<"I","N">> -> [err |-> NoError, arg |-> NamedIn(p), reg |-> FALSE]
          [] D = <<"O","U","T">> ->
                IF IsCursorType(p.Type)
                THEN [err |-> NoError, arg |-> NamedCursor(p, i), reg |-> TRUE]
                ELSE [err |-> NoError, arg |-> NamedOut(p, i), reg |-> TRUE]
          [] D = <<"I","N","O","U","T">> ->
                IF IsCursorType(p.Type)
                THEN [err |-> Errorf("config", <<"R","E","F"," ","C","U","R","S","O","R"," ","c","a","n","n","o","t"," ","b","e"," ","u","s","e","d"," ","a","s"," ","I","N","O","U","T"," ","p","a","r","a","m","e","t","e","r">>,
                                     <<>>, <<>>, <<>>),
                      arg |-> NamedIn(p), reg |-> FALSE]
                ELSE [err |-> NoError, arg |-> NamedInOut(p, i), reg |-> TRUE]
          [] OTHER ->
                [err |-> Errorf("config", <<"u","n","s","u","p","p","o","r","t","e","d"," ","p","a","r","a","m","e","t","e","r"," ","d","i","r","e","c","t","i","o","n",":"," ">>,
                                p.Direction, <<>>, <<>>),
                 arg |-> NamedIn(p), reg |-> FALSE]

\* BindFrom with a slip: a parameter that cannot be bound is passed over and the
\* loop goes on, so the call reaches the database.
RECURSIVE BindFrom_SkipsUnbindable(_, _, _, _)
BindFrom_SkipsUnbindable(ps, i, as, outs) ==
    IF i > Len(ps) THEN [err |-> NoError, args |-> as, outs |-> outs]
    ELSE IF BindOne(ps[i], i).err # NoError
         THEN BindFrom_SkipsUnbindable(ps, i + 1, Append(as, BindOne(ps[i], i).arg), outs)
         ELSE BindFrom_SkipsUnbindable(ps, i + 1, Append(as, BindOne(ps[i], i).arg),
                                       IF BindOne(ps[i], i).reg
                                       THEN PutDest(outs, BindOne(ps[i], i).arg)
                                       ELSE outs)

\* The binding loop of CallProcedure from parameter i on: it stops at the first
\* parameter that cannot be bound and keeps what was bound before it.
RECURSIVE BindFrom(_, _, _, _)
BindFrom(ps, i, as, outs) ==
    IF i > Len(ps) THEN [err |-> NoError, args |-> as, outs |-> outs]
    ELSE IF BindOne(ps[i], i).err # NoError
         THEN [err |-> BindOne(ps[i], i).err, args |-> as, outs |-> outs]
         ELSE BindFrom(ps, i + 1, Append(as, BindOne(ps[i], i).arg),
                       IF BindOne(ps[i], i).reg
                       THEN PutDest(outs, BindOne(ps[i], i).arg)
                       ELSE outs)

BindAll(ps) == BindFrom(ps, 1, <<>>, EmptyMap)

\* ------------------------------------------------------------ Invoker
\* PlaceholdersFrom with a slip: placeholders numbered by position (:1, :2).
RECURSIVE PlaceholdersFrom_Positional(_, _)
PlaceholdersFrom_Positional(ps, i) ==
    IF i > Len(ps) THEN <<>>
    ELSE (IF i > 1 THEN <<","," ">> ELSE <<>>) \o <<":">> \o IntText(i)
             \o PlaceholdersFrom_Positional(ps, i + 1)

RECURSIVE PlaceholdersFrom(_, _)
PlaceholdersFrom(ps, i) ==
    IF i > Len(ps) THEN <<>>
    ELSE (IF i > 1 THEN <<","," ">> ELSE <<>>) \o <<":">> \o ps[i].Name \o PlaceholdersFrom(ps, i + 1)

\* The PL/SQL block: "BEGIN name(" + ":p1, :p2" + "); END;".
BuildQuery(n, ps) == <<"B","E","G","I","N"," ">> \o n \o <<"(">> \o PlaceholdersFrom(ps, 1) \o <<")",";"," ","E","N","D",";">>

\* ExecError with a slip: the procedure name is left out of the text.
ExecError_OmitsName(n, e) == Errorf("exec", <<"e","x","e","c","u","t","i","o","n"," ","f","a","i","l","e","d",":"," ">>, <<>>, <<>>, e)

\* The error of a failed execution: the procedure name and the wrapped cause.
ExecError(n, e) == Errorf("exec", <<"e","x","e","c","u","t","i","o","n"," ","f","a","i","l","e","d"," ","f","o","r"," ","p","r","o","c","e","d","u","r","e"," ","'">>, n, <<"'",":"," ">>, e)

\* ------------------------------------------------------------ database answers
\* Row sets a cursor can hold: column names, fetched rows, and where fetching fails
\* (colsErr: rows.Columns fails; scanFailAt = k: the k-th rows.Scan fails;
\* iterErr: rows.Err reports an error after the last row).
TimeA == Time(2024, 1, 2, 3, 4, 5, 0)

RowSetEmpty == [cols |-> <<<<"i","d">>>>, colsErr |-> FALSE, data |-> <<>>,
                scanFailAt |-> 0, iterErr |-> FALSE]

RowSetTwo == [cols |-> <<<<"i","d">>, <<"r","a","w">>, <<"t","s">>>>, colsErr |-> FALSE,
              data |-> << <<GoFloat64(1), GoBytes(<<"a","b">>), GoTime(TimeA)>>,
                          <<GoFloat64(2), GoNil, GoString(<<"x">>)>> >>,
              scanFailAt |-> 0, iterErr |-> FALSE]

RowSets == {RowSetEmpty, RowSetTwo,
            [RowSetTwo EXCEPT !.scanFailAt = 2],
            [RowSetTwo EXCEPT !.iterErr = TRUE],
            [RowSetEmpty EXCEPT !.colsErr = TRUE]}

DbErrors == {<<"d","a","t","a","b","a","s","e"," ","c","o","n","n","e","c","t","i","o","n"," ","e","r","r","o","r">>, <<"O","R","A","-","1","2","3","4","5",":"," ","c","u","s","t","o","m"," ","o","r","a","c","l","e"," ","e","r","r","o","r">>}

NoCell == [present |-> FALSE, wrap |-> "none", rows |-> RowSetEmpty]

\* What the database can leave in the destination of one bound argument: a
\* presence flag for a scalar destination; for a cursor destination, an unset
\* cursor (go_ora.WrapRefCursor then gives nil rows and no error, the case the
\* "rows != nil ... else" branch is written for), a cursor that fails to wrap,
\* or a row set.
DbCells(a) ==
    CASE a.Dest = "none" -> {NoCell}
      [] a.Dest = "RefCursor" ->
            {[present |-> FALSE, wrap |-> "unset", rows |-> RowSetEmpty],
             [present |-> TRUE, wrap |-> "err", rows |-> RowSetEmpty]}
            \cup {[present |-> TRUE, wrap |-> "rows", rows |-> rs] : rs \in RowSets}
      [] OTHER -> {[present |-> b, wrap |-> "none", rows |-> RowSetEmpty] : b \in BOOLEAN}

DbAnswers(as) == {f \in [DOMAIN as -> UNION {DbCells(as[i]) : i \in DOMAIN as}] :
                     \A i \in DOMAIN as : f[i] \in DbCells(as[i])}

\* The scalar the procedure stores in a destination of each kind; a dynamic
\* destination (*any) holds the driver's own scalar rendering of the value.
StoredScalar(kind) ==
    CASE kind = "NullFloat64" -> GoFloat64(1042)
      [] kind = "NullString" -> GoString(<<"o","k">>)
      [] kind = "NullTime" -> GoTime(TimeA)
      [] kind = "bytes" -> GoBytes(<<"a","b">>)
      [] OTHER -> GoString(<<"d","y","n">>)

\* ------------------------------------------------------------ Result Normalizer
NilResult == [isNil |-> TRUE, m |-> EmptyMap]

MapResult(m) == [isNil |-> FALSE, m |-> m]

Put(m, k, v) == [n \in DOMAIN m \cup {k} |-> IF n = k THEN v ELSE m[n]]

\* ColumnValue with a slip: a temporal value is passed through as it was scanned.
ColumnValue_TimeUnformatted(v) ==
    CASE v.t = "bytes" -> GoString(v.v)
      [] OTHER -> v

\* The presentation conversion of one scanned column value: the type switch on
\* columns[i].
ColumnValue(v) ==
    CASE v.t = "bytes" -> GoString(v.v)
      [] v.t = "time" -> GoString(FormatRFC3339(v.v))
      [] OTHER -> v

\* rowMap[colName] = value for each column in order (a repeated name keeps the last).
RECURSIVE RowMapFrom(_, _, _, _)
RowMapFrom(cols, row, i, m) ==
    IF i > Len(cols) THEN m
    ELSE RowMapFrom(cols, row, i + 1, Put(m, cols[i], ColumnValue(row[i])))

\* The loop "for rows.Next()" from row i on, and the rows.Err check after it;
\* fetched counts the rows that rows.Next has delivered.
RECURSIVE ScanFrom(_, _, _)
ScanFrom(rs, i, acc) ==
    IF i > Len(rs.data)
    THEN IF rs.iterErr
         THEN [rows |-> <<>>, fetched |-> i - 1,
               err |-> Errorf("rows", <<"r","o","w","s"," ","i","t","e","r","a","t","i","o","n"," ","e","r","r","o","r",":"," ">>, <<>>, <<>>, <<"E","O","F">>)]
         ELSE [rows |-> acc, fetched |-> i - 1, err |-> NoError]
    ELSE IF rs.scanFailAt = i
         THEN [rows |-> <<>>, fetched |-> i,
               err |-> Errorf("rows", <<"s","c","a","n"," ","f","a","i","l","e","d",":"," ">>, <<>>, <<>>, <<"b","a","d"," ","c","o","l","u","m","n">>)]
         ELSE ScanFrom(rs, i + 1, Append(acc, RowMapFrom(rs.cols, rs.data[i], 1, EmptyMap)))

\* The body of processRowsResult: rows.Columns, then the loop.
RowsBody(rs) ==
    IF rs.colsErr
    THEN [rows |-> <<>>, fetched |-> 0,
          err |-> Errorf("rows", <<"f","a","i","l","e","d"," ","t","o"," ","g","e","t"," ","c","o","l","u","m","n","s",":"," ">>, <<>>, <<>>, <<"c","l","o","s","e","d">>)]
    ELSE ScanFrom(rs, 1, <<>>)

\* processRowsResult with a slip: rows.Close is called after the loop instead of
\* being deferred, so the early returns leave the row set open.
processRowsResult_CloseNotDeferred(rs) ==
    [rows |-> RowsBody(rs).rows, fetched |-> RowsBody(rs).fetched, err |-> RowsBody(rs).err,
     closed |-> ~rs.colsErr /\ rs.scanFailAt \notin 1..Len(rs.data)]

\* processRowsResult: the rows of a row set as mappings, or the first error; the
\* deferred rows.Close has run when it returns, on every path.
processRowsResult(rs) ==
    [rows |-> RowsBody(rs).rows, fetched |-> RowsBody(rs).fetched, err |-> RowsBody(rs).err,
     closed |-> TRUE]

\* ReadDest with a slip: the presence flag is not consulted, the zero value of an
\* absent destination is recorded.
ReadDest_IgnoresFlag(kind, cell) ==
    CASE kind = "NullString" -> IF cell.present THEN StoredScalar(kind) ELSE GoString(<<>>)
      [] kind = "NullFloat64" -> IF cell.present THEN StoredScalar(kind) ELSE GoFloat64(0)
      [] kind = "NullTime" -> IF cell.present THEN StoredScalar(kind) ELSE GoTime(Time(1, 1, 1, 0, 0, 0, 0))
      [] kind = "bool" -> GoBool(cell.present)
      [] kind = "bytes" -> IF cell.present THEN StoredScalar(kind) ELSE GoBytes(<<>>)
      [] kind = "any" -> IF cell.present THEN StoredScalar(kind) ELSE GoNil

\* The value recorded for a non-cursor destination.
ReadDest(kind, cell) ==
    CASE kind \in {"NullString", "NullFloat64", "NullTime"} ->
             IF cell.present THEN StoredScalar(kind) ELSE GoNil
      [] kind = "bool" -> GoBool(cell.present)
      [] kind = "bytes" -> IF cell.present THEN StoredScalar(kind) ELSE GoBytes(<<>>)
      [] kind = "any" -> IF cell.present THEN StoredScalar(kind) ELSE GoNil

\* RecordCursor with a slip: the error of a failed cursor does not say which
\* parameter it belongs to.
RecordCursor_ErrorOmitsName(p, dest, cell, acc) ==
    CASE cell.wrap = "err" ->
            [acc EXCEPT !.reads = @ \cup {dest.Ptr},
                        !.err = Errorf("result", <<"f","a","i","l","e","d"," ","t","o"," ","w","r","a","p"," ","R","E","F"," ","C","U","R","S","O","R">>,
                                       <<>>, <<":"," ">>, <<"O","R","A","-","0","1","0","0","1">>)]
      [] cell.wrap = "unset" ->
            [acc EXCEPT !.reads = @ \cup {dest.Ptr}, !.m = Put(@, p.Name, GoNil)]
      [] OTHER ->
            IF processRowsResult(cell.rows).err # NoError
            THEN [acc EXCEPT !.reads = @ \cup {dest.Ptr},
                             !.closed = @ \cup (IF processRowsResult(cell.rows).closed
                                                THEN {dest.Ptr} ELSE {}),
                             !.err = Errorf("result", <<"f","a","i","l","e","d"," ","t","o"," ","p","r","o","c","e","s","s"," ","R","E","F"," ","C","U","R","S","O","R">>,
                                            <<>>, <<":"," ">>, processRowsResult(cell.rows).err.text)]
            ELSE [acc EXCEPT !.reads = @ \cup {dest.Ptr},
                             !.closed = @ \cup (IF processRowsResult(cell.rows).closed
                                                THEN {dest.Ptr} ELSE {}),
                             !.m = Put(@, p.Name, GoRows(processRowsResult(cell.rows).rows))]

\* The REF CURSOR branch for a parameter whose destination is a cursor handle:
\* WrapRefCursor, then processRowsResult or an explicit nil.
RecordCursor(p, dest, cell, acc) ==
    CASE cell.wrap = "err" ->
            [acc EXCEPT !.reads = @ \cup {dest.Ptr},
                        !.err = Errorf("result", <<"f","a","i","l","e","d"," ","t","o"," ","w","r","a","p"," ","R","E","F"," ","C","U","R","S","O","R"," ","f","o","r"," ","p","a","r","a","m","e","t","e","r"," ">>,
                                       p.Name, <<":"," ">>, <<"O","R","A","-","0","1","0","0","1">>)]
      [] cell.wrap = "unset" ->
            [acc EXCEPT !.reads = @ \cup {dest.Ptr}, !.m = Put(@, p.Name, GoNil)]
      [] OTHER ->
            IF processRowsResult(cell.rows).err # NoError
            THEN [acc EXCEPT !.reads = @ \cup {dest.Ptr},
                             !.closed = @ \cup (IF processRowsResult(cell.rows).closed
                                                THEN {dest.Ptr} ELSE {}),
                             !.err = Errorf("result", <<"f","a","i","l","e","d"," ","t","o"," ","p","r","o","c","e","s","s"," ","R","E","F"," ","C","U","R","S","O","R"," ","f","o","r"," ","p","a","r","a","m","e","t","e","r"," ">>,
                                            p.Name, <<":"," ">>, processRowsResult(cell.rows).err.text)]
            ELSE [acc EXCEPT !.reads = @ \cup {dest.Ptr},
                             !.closed = @ \cup (IF processRowsResult(cell.rows).closed
                                                THEN {dest.Ptr} ELSE {}),
                             !.m = Put(@, p.Name, GoRows(processRowsResult(cell.rows).rows))]

\* RecordScalar with a slip: a destination whose value is absent leaves no entry.
RecordScalar_OmitsNull(p, dest, cell, acc) ==
    IF dest.Dest \in {"NullString", "NullFloat64", "NullTime"} /\ ~cell.present
    THEN [acc EXCEPT !.reads = @ \cup {dest.Ptr}]
    ELSE [acc EXCEPT !.reads = @ \cup {dest.Ptr}, !.m = Put(@, p.Name, ReadDest(dest.Dest, cell))]

\* The type switch over a regular destination.
RecordScalar(p, dest, cell, acc) ==
    [acc EXCEPT !.reads = @ \cup {dest.Ptr}, !.m = Put(@, p.Name, ReadDest(dest.Dest, cell))]

\* ProcessOne with a slip: a parameter that is skipped is recorded as null.
ProcessOne_RecordsSkipped(p, outs, db, acc) ==
    IF ToUpper(p.Direction) = <<"I","N">> \/ p.Name \notin DOMAIN outs
    THEN [acc EXCEPT !.m = Put(@, p.Name, GoNil)]
    ELSE IF IsCursorType(p.Type)
         THEN IF outs[p.Name].Dest = "RefCursor"
              THEN RecordCursor(p, outs[p.Name], db[outs[p.Name].Ptr], acc)
              ELSE acc
         ELSE IF outs[p.Name].Dest = "RefCursor"
              THEN acc
              ELSE RecordScalar(p, outs[p.Name], db[outs[p.Name].Ptr], acc)

\* One pass of the loop of processOutputParameters.  acc carries the result map,
\* the destinations read so far (by the position of the argument that owns them),
\* those whose row set was closed, and the error that ends the loop.
ProcessOne(p, outs, db, acc) ==
    IF ToUpper(p.Direction) = <<"I","N">> \/ p.Name \notin DOMAIN outs
    THEN acc
    ELSE IF IsCursorType(p.Type)
         THEN IF outs[p.Name].Dest = "RefCursor"
              THEN RecordCursor(p, outs[p.Name], db[outs[p.Name].Ptr], acc)
              ELSE acc
         ELSE IF outs[p.Name].Dest = "RefCursor"
              THEN acc
              ELSE RecordScalar(p, outs[p.Name], db[outs[p.Name].Ptr], acc)

RECURSIVE ProcessFrom(_, _, _, _, _)
ProcessFrom(ps, outs, db, i, acc) ==
    IF i > Len(ps) \/ acc.err # NoError THEN acc
    ELSE ProcessFrom(ps, outs, db, i + 1, ProcessOne(ps[i], outs, db, acc))

\* processOutputParameters with a slip: the result map is only allocated when the
\* first entry is stored, so a call without entries returns a nil map.
processOutputParameters_NilWhenEmpty(ps, outs, db) ==
    LET acc == ProcessFrom(ps, outs, db, 1, [m |-> EmptyMap, reads |-> {}, closed |-> {}, err |-> NoError])
    IN  [result |-> IF acc.err = NoError /\ acc.m # EmptyMap THEN MapResult(acc.m) ELSE NilResult,
         err |-> acc.err, reads |-> acc.reads, closed |-> acc.closed]

\* processOutputParameters: the result map, or nil and the first error.
processOutputParameters(ps, outs, db) ==
    LET acc == ProcessFrom(ps, outs, db, 1, [m |-> EmptyMap, reads |-> {}, closed |-> {}, err |-> NoError])
    IN  [result |-> IF acc.err = NoError THEN MapResult(acc.m) ELSE NilResult,
         err |-> acc.err, reads |-> acc.reads, closed |-> acc.closed]

\* ------------------------------------------------------------ inputs of a call
ProcNames == {<<"c","a","l","c">>}

ParamNames == {<<"a">>, <<"b">>}

Directions == {<<"I","N">>, <<"i","n">>, <<"O","U","T">>, <<"O","u","t">>, <<"I","N","O","U","T">>, <<"i","n","o","u","t">>, <<>>, <<"s","i","d","e">>}

Types == {<<"N","U","M","B","E","R">>, <<"v","a","r","c","h","a","r","2">>, <<"D","A","T","E">>, <<"B","O","O","L","E","A","N">>,
          <<"s","y","s","_","r","e","f","c","u","r","s","o","r">>, <<"R","E","F"," ","C","U","R","S","O","R">>, <<"R","E","F","_","C","U","R","S","O","R">>}

Values == {GoString(<<"7">>)}

\* request.ProcedureParam
ProcedureParam == [Name : ParamNames, Type : Types, Direction : Directions, Value : Values]

\* ------------------------------------------------------------ one invocation
\* No call is in progress in the repository.
RepoIdle ==
    /\ pc = "idle"
    /\ name = <<>>
    /\ params = <<>>
    /\ args = <<>>
    /\ outputParams = EmptyMap
    /\ query = <<>>
    /\ execArgs = <<>>
    /\ execCount = 0
    /\ dbErr = <<>>
    /\ dbOut = <<>>
    /\ destReads = {}
    /\ closedRows = {}
    /\ result = NilResult
    /\ err = NoError
    /\ ctxDoneAt = "none"

\* CallProcedure is entered with a procedure name and a parameter list.
Call ==
    /\ pc = "idle"
    /\ \E n \in ProcNames, len \in 0..MaxParams :
          \E ps \in [1..len -> ProcedureParam] :
              /\ name' = n
              /\ params' = ps
    /\ pc' = "binding"
    /\ UNCHANGED <<args, outputParams, query, execArgs, execCount, dbErr, dbOut,
                   destReads, closedRows, result, err, ctxDoneAt>>
    /\ UNCHANGED layerVars

\* The binding loop: every parameter is bound, or the first one that cannot be
\* bound ends the call with its error.
Bind ==
    /\ pc = "binding"
    /\ LET b == BindAll(params)
       IN  /\ args' = b.args
           /\ outputParams' = b.outs
           /\ IF b.err = NoError
              THEN /\ pc' = "bound"
                   /\ UNCHANGED <<result, err>>
              ELSE /\ pc' = "done"
                   /\ result' = NilResult
                   /\ err' = b.err
    /\ UNCHANGED <<name, params, query, execArgs, execCount, dbErr, dbOut, destReads,
                   closedRows, ctxDoneAt>>
    /\ UNCHANGED layerVars

\* ctx.Err() of a cancelled context.
ContextCanceled == <<"c","o","n","t","e","x","t"," ","c","a","n","c","e","l","e","d">>

\* r.db.ExecContext(ctx, query, args...) returns an error: one of the database,
\* or the context's own once the context is done.
ExecuteFail ==
    /\ pc = "bound"
    /\ query' = BuildQuery(name, params)
    /\ execArgs' = args
    /\ execCount' = execCount + 1
    /\ \E e \in (IF ctxDoneAt = "none" THEN DbErrors ELSE {ContextCanceled}) :
          /\ dbErr' = e
          /\ err' = ExecError(name, e)
    /\ result' = NilResult
    /\ pc' = "done"
    /\ UNCHANGED <<name, params, args, outputParams, dbOut, destReads, closedRows,
                   ctxDoneAt>>
    /\ UNCHANGED layerVars

\* r.db.ExecContext(ctx, query, args...) succeeds under a live context; the
\* database has filled the destinations of the bound arguments.
ExecuteOk ==
    /\ pc = "bound"
    /\ ctxDoneAt = "none"
    /\ query' = BuildQuery(name, params)
    /\ execArgs' = args
    /\ execCount' = execCount + 1
    /\ dbOut' \in DbAnswers(args)
    /\ pc' = "executed"
    /\ UNCHANGED <<name, params, args, outputParams, dbErr, destReads, closedRows,
                   result, err, ctxDoneAt>>
    /\ UNCHANGED layerVars

\* return r.processOutputParameters(params, outputParams): the context is not
\* handed on; cursors are wrapped under context.Background().
Normalize ==
    /\ pc = "executed"
    /\ LET r == processOutputParameters(params, outputParams, dbOut)
       IN  /\ result' = r.result
           /\ err' = r.err
           /\ destReads' = r.reads
           /\ closedRows' = r.closed
    /\ pc' = "done"
    /\ UNCHANGED <<name, params, args, outputParams, query, execArgs, execCount, dbErr,
                   dbOut, ctxDoneAt>>
    /\ UNCHANGED layerVars

\* The caller has taken the result; the repository is ready for the next call.
Return ==
    /\ pc = "done"
    /\ pc' = "idle"
    /\ name' = <<>>
    /\ params' = <<>>
    /\ args' = <<>>
    /\ outputParams' = EmptyMap
    /\ query' = <<>>
    /\ execArgs' = <<>>
    /\ execCount' = 0
    /\ dbErr' = <<>>
    /\ dbOut' = <<>>
    /\ destReads' = {}
    /\ closedRows' = {}
    /\ result' = NilResult
    /\ err' = NoError
    /\ ctxDoneAt' = "none"
    /\ UNCHANGED layerVars

\* The caller's context is cancelled or expires while the call is in execution
\* (bound) or has the cursors of its result still to fetch (executed).
Cancel ==
    /\ pc \in {"bound", "executed"}
    /\ ctxDoneAt = "none"
    /\ ctxDoneAt' = pc
    /\ UNCHANGED <<pc, name, params, args, outputParams, query, execArgs, execCount,
                   dbErr, dbOut, destReads, closedRows, result, err>>
    /\ UNCHANGED layerVars

\* ------------------------------------------------------------ components at rest
\* No row set is being materialized.
RowsIdle ==
    /\ rowsPc = "idle"
    /\ rows = RowSetEmpty
    /\ fetched = 0
    /\ closed = FALSE
    /\ rowsResult = <<>>
    /\ rowsErr = NoError

\* No parameter is being bound.
ConvIdle ==
    /\ convPc = "idle"
    /\ param = [Name |-> <<"a">>, Type |-> <<"N","U","M","B","E","R">>, Direction |-> <<"I","N">>, Value |-> GoNil]
    /\ bound = GoNil
    /\ bindErr = NoError

\* No request is being served.
HttpIdle ==
    /\ httpPc = "idle"
    /\ httpMethod = "none"
    /\ path = "none"
    /\ route = "none"
    /\ body = [kind |-> "empty"]
    /\ req = <<>>
    /\ svcCalls = <<>>
    /\ repoCalls = <<>>
    /\ repoRet = <<>>
    /\ svcRet = <<>>
    /\ resp = <<>>

\* GetProcedureInfo is not running.
InfoIdle ==
    /\ infoPc = "idle"
    /\ procedureName = <<>>
    /\ catalog = [queryErr |-> <<>>, data |-> <<>>, scanFailAt |-> 0, iterErr |-> FALSE]
    /\ queryArgs = <<>>
    /\ infoRowsOpen = FALSE
    /\ infoResult = NilResult
    /\ infoErr = NoError

\* How many invocations run on the same repository at once.
MaxCalls == 2

\* The invocations that run on the same repository.
Invocations == 1..MaxCalls

\* The locals of an invocation that has not been entered.
IdleCall == [pc |-> "idle", name |-> <<>>, params |-> <<>>, args |-> <<>>,
             outputParams |-> EmptyMap, dbErr |-> <<>>, dbOut |-> <<>>,
             result |-> NilResult, err |-> NoError]

\* None of the invocations has been entered.
PairIdle == calls = [k \in Invocations |-> IdleCall]

\* ------------------------------------------------------------ input conversion
\* Declared types of an input parameter: every numeric type, BOOLEAN, and a type
\* of each other kind.
ConvertTypes == NumericTypes \cup {<<"n","u","m","b","e","r">>, <<"B","O","O","L","E","A","N">>, <<"B","o","o","l","e","a","n">>, <<"V","A","R","C","H","A","R","2">>,
                                  <<"D","A","T","E">>, <<"R","A","W">>, <<"X","M","L","T","Y","P","E">>}

\* Source values of an input parameter (p.Value): what a JSON body decodes to
\* (nil, bool, float64, string) and the integers a Go caller can pass.
ConvertValues ==
    {GoNil, GoBool(TRUE), GoBool(FALSE),
     GoFloat64(0), GoFloat64(5), GoFloat64(0 - 2), GoInt(0), GoInt(3),
     [t |-> "int64", v |-> 0], [t |-> "int64", v |-> 9]}
        \cup {GoString(s) : s \in {<<"7">>, <<"-","1","2">>, <<"+","3">>, <<"0","0","7">>, <<"0">>, <<"1">>,
                                    <<"n","o","t","-","a","-","n","u","m","b","e","r">>, <<>>, <<"t","r","u","e">>, <<"T","R","U","E">>,
                                    <<"t","R","u","E">>, <<"f","a","l","s","e">>, <<"y","e","s">>,
                                    <<"2","0","2","4","-","0","1","-","0","2","T","0","3",":","0","4",":","0","5","Z">>}}

\* The Binder is about to bind one IN parameter.
InitConvert ==
    /\ RepoIdle /\ RowsIdle /\ HttpIdle /\ InfoIdle /\ PairIdle
    /\ convPc = "binding"
    /\ param \in [Name : {<<"a">>}, Type : ConvertTypes, Direction : {<<"I","N">>, <<"i","n">>},
                  Value : ConvertValues]
    /\ bound = GoNil
    /\ bindErr = NoError

\* One pass of the binding loop for the parameter: case "IN" appends
\* sql.Named(p.Name, r.convertInputValue(p)).
BindInput ==
    /\ convPc = "binding"
    /\ bound' = BindOne(param, 1).arg.In
    /\ bindErr' = BindOne(param, 1).err
    /\ convPc' = "bound"
    /\ UNCHANGED <<param, repoVars, rowsVars, httpVars, infoVars, pairVars>>

\* ------------------------------------------------------------ row materialization
\* The most rows a cursor delivers.
MaxRows == 2

\* A second instant, in a zone two hours east of UTC.
TimeB == Time(1999, 12, 31, 23, 59, 58, 120)

\* What rows.Scan can leave in a column of dynamic type.
CellValues == {GoNil, GoFloat64(1), GoBytes(<<"a","b">>), GoTime(TimeA), GoTime(TimeB)}

\* Column lists of a cursor; a select list may repeat a column name.
ColumnLists == {<<<<"i","d">>>>, <<<<"i","d">>, <<"r","a","w">>>>, <<<<"i","d">>, <<"i","d">>>>}

\* The row sets processRowsResult is given.
RowSetInputs ==
    UNION {UNION {[cols : {cs}, colsErr : BOOLEAN,
                   data : [1..n -> [1..Len(cs) -> CellValues]],
                   scanFailAt : 0..MaxRows, iterErr : BOOLEAN] : n \in 0..MaxRows}
           : cs \in ColumnLists}

\* processRowsResult has been called with an open row set.
InitRows ==
    /\ RepoIdle /\ ConvIdle /\ HttpIdle /\ InfoIdle /\ PairIdle
    /\ rowsPc = "called"
    /\ rows \in RowSetInputs
    /\ fetched = 0
    /\ closed = FALSE
    /\ rowsResult = <<>>
    /\ rowsErr = NoError

\* processRowsResult runs to its return.
Materialize ==
    /\ rowsPc = "called"
    /\ LET r == processRowsResult(rows)
       IN  /\ rowsResult' = r.rows
           /\ rowsErr' = r.err
           /\ fetched' = r.fetched
           /\ closed' = r.closed
    /\ rowsPc' = "returned"
    /\ UNCHANGED <<rows, repoVars, convVars, httpVars, infoVars, pairVars>>

\* ------------------------------------------------------------ HTTP handlers and service
\* The longest params array of a request body.
MaxBodyParams == 2

\* A JSON value: null, a string, a number, an array or an object; "absent" stands
\* for a member an object does not have.
J(kind, v) == [j |-> kind, v |-> v]

\* strings.TrimSpace: leading and trailing white space removed.
TrimSpace(s) ==
    LET White == {" ", "\t", "\n", "\r"}
        Kept == {i \in DOMAIN s : s[i] \notin White}
    IN  IF Kept = {} THEN <<>>
        ELSE SubSeq(s, CHOOSE i \in Kept : \A k \in Kept : i <= k,
                       CHOOSE i \in Kept : \A k \in Kept : k <= i)

\* json.Unmarshal of the JSON value x into a Go value of type T: a member that is
\* absent or null leaves the zero value, a JSON value of the wrong kind is an
\* error, a number becomes a float64 in a destination of type any.
RECURSIVE Unmarshal(_, _)
Unmarshal(x, T) ==
    CASE T = "string" ->
             CASE x.j \in {"absent", "null"} -> [ok |-> TRUE, v |-> <<>>]
               [] x.j = "string" -> [ok |-> TRUE, v |-> x.v]
               [] OTHER -> [ok |-> FALSE, v |-> <<>>]
      [] T = "any" ->
             CASE x.j = "string" -> [ok |-> TRUE, v |-> GoString(x.v)]
               [] x.j = "number" -> [ok |-> TRUE, v |-> GoFloat64(x.v)]
               [] OTHER -> [ok |-> TRUE, v |-> GoNil]
      [] T = "ProcedureParam" ->
             IF x.j = "object"
             THEN [ok |-> /\ Unmarshal(x.v.name, "string").ok
                          /\ Unmarshal(x.v.type, "string").ok
                          /\ Unmarshal(x.v.direction, "string").ok,
                   v |-> [Name |-> Unmarshal(x.v.name, "string").v,
                          Type |-> Unmarshal(x.v.type, "string").v,
                          Value |-> Unmarshal(x.v.value, "any").v,
                          Direction |-> Unmarshal(x.v.direction, "string").v]]
             ELSE [ok |-> x.j = "null",
                   v |-> [Name |-> <<>>, Type |-> <<>>, Value |-> GoNil, Direction |-> <<>>]]
      [] T = "[]ProcedureParam" ->
             IF x.j = "array"
             THEN [ok |-> \A i \in DOMAIN x.v : Unmarshal(x.v[i], "ProcedureParam").ok,
                   v |-> [i \in DOMAIN x.v |-> Unmarshal(x.v[i], "ProcedureParam").v]]
             ELSE [ok |-> x.j \in {"absent", "null"}, v |-> <<>>]
      [] T = "CallProcedureRequest" ->
             IF x.j = "object"
             THEN [ok |-> /\ Unmarshal(x.v.name, "string").ok
                          /\ Unmarshal(x.v.params, "[]ProcedureParam").ok,
                   v |-> [Name |-> Unmarshal(x.v.name, "string").v,
                          Params |-> Unmarshal(x.v.params, "[]ProcedureParam").v]]
             ELSE [ok |-> x.j = "null", v |-> [Name |-> <<>>, Params |-> <<>>]]
      [] T = "GetProcedureInfoRequest" ->
             IF x.j = "object"
             THEN [ok |-> Unmarshal(x.v.procedure_name, "string").ok,
                   v |-> [ProcedureName |-> Unmarshal(x.v.procedure_name, "string").v]]
             ELSE [ok |-> x.j = "null", v |-> [ProcedureName |-> <<>>]]

\* json.NewDecoder(r.Body).Decode(&req): an empty body (io.EOF) and a body that is
\* not JSON are errors; otherwise the value read is unmarshalled.
Decode(b, T) ==
    IF b.kind = "json" THEN Unmarshal(b.json, T)
    ELSE [ok |-> FALSE, v |-> Unmarshal(J("null", 0), T).v]

\* The loop of Validate from parameter i on (i counts from 1, the text from 0).
RECURSIVE ValidateFrom(_, _)
ValidateFrom(ps, i) ==
    IF i > Len(ps) THEN NoError
    ELSE IF \/ TrimSpace(ps[i].Name) # <<>>
            \/ TrimSpace(ps[i].Type) # <<>>
            \/ TrimSpace(ps[i].Direction) # <<>>
         THEN IF TrimSpace(ps[i].Name) = <<>>
              THEN Errorf("validation", <<"p","a","r","a","m","[">>, IntText(i - 1), <<"]"," ","n","a","m","e"," ","i","s"," ","r","e","q","u","i","r","e","d">>, <<>>)
              ELSE IF TrimSpace(ps[i].Type) = <<>>
              THEN Errorf("validation", <<"p","a","r","a","m","[">>, IntText(i - 1), <<"]"," ","t","y","p","e"," ","i","s"," ","r","e","q","u","i","r","e","d">>, <<>>)
              ELSE IF TrimSpace(ps[i].Direction) = <<>>
              THEN Errorf("validation", <<"p","a","r","a","m","[">>, IntText(i - 1),
                          <<"]"," ","d","i","r","e","c","t","i","o","n"," ","i","s"," ","r","e","q","u","i","r","e","d">>, <<>>)
              ELSE ValidateFrom(ps, i + 1)
         ELSE ValidateFrom(ps, i + 1)

\* CallProcedureRequest.Validate
Validate(r) ==
    IF TrimSpace(r.Name) = <<>>
    THEN Errorf("validation", <<"p","r","o","c","e","d","u","r","e"," ","n","a","m","e"," ","i","s"," ","r","e","q","u","i","r","e","d">>, <<>>, <<>>, <<>>)
    ELSE ValidateFrom(r.Params, 1)

\* response.ErrorResponse(message, nil) written with a status: the untyped nil
\* data is replaced by an empty object.
ErrorResponse(status, message) ==
    [status |-> status, message |-> message, success |-> FALSE, data |-> MapResult(EmptyMap)]

\* response.SuccessResponse(message, data) written with a status: only an untyped
\* nil would be replaced; a result of the service keeps its type when it is nil.
SuccessResponse(status, message, data) ==
    [status |-> status, message |-> message, success |-> TRUE,
     data |-> IF data = GoNil THEN MapResult(EmptyMap) ELSE data]

\* The first half of a handler with a slip: the error of validation is logged but
\* the handler goes on to the service.
HandleBody_ValidationIgnored(rt, b) ==
    LET T == IF rt = "call" THEN "CallProcedureRequest" ELSE "GetProcedureInfoRequest"
        d == Decode(b, T)
    IN  IF ~d.ok
        THEN [invoke |-> FALSE, req |-> d.v, resp |-> ErrorResponse(400, <<"I","n","v","a","l","i","d"," ","J","S","O","N"," ","f","o","r","m","a","t">>)]
        ELSE [invoke |-> TRUE, req |-> d.v, resp |-> <<>>]

\* The first half of a handler (ProcedureHandler.CallProcedure for the route
\* "call", ProcedureHandler.GetProcedureInfo for "info"): decode, validate, and
\* either answer 400 or go on to the service.
HandleBody(rt, b) ==
    LET T == IF rt = "call" THEN "CallProcedureRequest" ELSE "GetProcedureInfoRequest"
        d == Decode(b, T)
    IN  IF ~d.ok
        THEN [invoke |-> FALSE, req |-> d.v, resp |-> ErrorResponse(400, <<"I","n","v","a","l","i","d"," ","J","S","O","N"," ","f","o","r","m","a","t">>)]
        ELSE IF rt = "call" /\ Validate(d.v) # NoError
        THEN [invoke |-> FALSE, req |-> d.v, resp |-> ErrorResponse(400, Validate(d.v).text)]
        ELSE IF rt = "info" /\ d.v.ProcedureName = <<>>
        THEN [invoke |-> FALSE, req |-> d.v,
              resp |-> ErrorResponse(400, <<"p","r","o","c","e","d","u","r","e","_","n","a","m","e"," ","i","s"," ","r","e","q","u","i","r","e","d">>)]
        ELSE [invoke |-> TRUE, req |-> d.v, resp |-> <<>>]

\* The second half of a handler with a slip: the error of the service is logged
\* and the success response is written all the same.
HandleReturn_ErrorIgnored(ret) == SuccessResponse(200, <<"S","u","c","c","e","s","s">>, ret.result)

\* The second half of a handler: the response for what the service returned.
HandleReturn(ret) ==
    IF ret.err # NoError
    THEN ErrorResponse(500, ret.err.text)
    ELSE SuccessResponse(200, <<"S","u","c","c","e","s","s">>, ret.result)

\* The service's call of the repository with a slip: the name is upper-cased.
ServiceCall_UpperName(rt, r) ==
    IF rt = "call"
    THEN [method |-> "CallProcedure", name |-> ToUpper(r.Name), params |-> r.Params]
    ELSE [method |-> "GetProcedureInfo", name |-> ToUpper(r.ProcedureName), params |-> <<>>]

\* ps.repo.CallProcedure(ctx, r.Name, r.Params) and
\* ps.repo.GetProcedureInfo(ctx, procedureName).
ServiceCall(rt, r) ==
    IF rt = "call"
    THEN [method |-> "CallProcedure", name |-> r.Name, params |-> r.Params]
    ELSE [method |-> "GetProcedureInfo", name |-> r.ProcedureName, params |-> <<>>]

\* What the service returns for what the repository returned: (nil, err) on an
\* error, the result otherwise.
ServiceReturn(ret) ==
    IF ret.err # NoError
    THEN [result |-> NilResult, err |-> ret.err]
    ELSE [result |-> ret.result, err |-> NoError]

\* What a repository can return to the service: a result, a nil result, an error
\* with a nil result, an error next to a result.
RepoAnswers(rt) ==
    LET some == IF rt = "call" THEN MapResult(Put(EmptyMap, <<"s","t","a","t","u","s">>, GoString(<<"c","o","m","p","l","e","t","e","d">>)))
                ELSE MapResult(<<Put(EmptyMap, <<"a","r","g","u","m","e","n","t","_","n","a","m","e">>, GoString(<<"P","_","I","D">>))>>)
    IN  {[result |-> some, err |-> NoError],
         [result |-> NilResult, err |-> NoError],
         [result |-> NilResult,
          err |-> Errorf("repo", <<"d","a","t","a","b","a","s","e"," ","c","o","n","n","e","c","t","i","o","n"," ","e","r","r","o","r">>, <<>>, <<>>, <<>>)],
         [result |-> some, err |-> Errorf("ctx", ContextCanceled, <<>>, <<>>, <<>>)]}

\* The members of a params array of a body.
BodyParams ==
    {J("object", [name |-> n, type |-> ty, direction |-> d, value |-> v]) :
        n \in {J("absent", 0), J("string", <<"a">>)},
        ty \in {J("absent", 0), J("string", <<" ">>), J("string", <<"N","U","M","B","E","R">>)},
        d \in {J("absent", 0), J("string", <<>>), J("string", <<"I","N">>)},
        v \in {J("absent", 0), J("number", 1)}}

\* The request bodies of each route.
Bodies(rt) ==
    {[kind |-> "empty"], [kind |-> "malformed"],
     [kind |-> "json", json |-> J("null", 0)], [kind |-> "json", json |-> J("array", <<>>)]}
    \cup
    IF rt = "call"
    THEN {[kind |-> "json", json |-> J("object", [name |-> n, params |-> ps])] :
             n \in {J("absent", 0), J("string", <<>>), J("string", <<" ">>),
                    J("string", <<"c","a","l","c">>), J("number", 5)},
             ps \in {J("absent", 0), J("string", <<"x">>)}
                       \cup {J("array", a) :
                                a \in UNION {[1..k -> BodyParams] : k \in 0..MaxBodyParams}}}
    ELSE {[kind |-> "json", json |-> J("object", [procedure_name |-> n])] :
             n \in {J("absent", 0), J("null", 0), J("string", <<>>), J("string", <<" ">>),
                    J("string", <<"c","a","l","c">>), J("number", 5)}}

\* A request is handed to one of the two handlers.
Receive ==
    /\ httpPc = "idle"
    /\ \E rt \in {"call", "info"} :
          /\ route' = rt
          /\ body' \in Bodies(rt)
    /\ httpPc' = "received"
    /\ UNCHANGED <<httpMethod, path, req, svcCalls, repoCalls, repoRet, svcRet, resp>>
    /\ UNCHANGED <<repoVars, rowsVars, convVars, infoVars, pairVars>>

\* The handler decodes and validates the body; it answers 400, or invokes the
\* service, which calls the repository.
Handle ==
    /\ httpPc = "received"
    /\ LET h == HandleBody(route, body)
       IN  /\ req' = h.req
           /\ IF h.invoke
              THEN /\ svcCalls' = Append(svcCalls, [route |-> route, req |-> h.req])
                   /\ repoCalls' = Append(repoCalls, ServiceCall(route, h.req))
                   /\ httpPc' = "inRepository"
                   /\ UNCHANGED resp
              ELSE /\ resp' = h.resp
                   /\ httpPc' = "responded"
                   /\ UNCHANGED <<svcCalls, repoCalls>>
    /\ UNCHANGED <<httpMethod, path, route, body, repoRet, svcRet>>
    /\ UNCHANGED <<repoVars, rowsVars, convVars, infoVars, pairVars>>

\* The repository returns; the service returns to the handler, which writes the
\* response.
RepositoryReturns ==
    /\ httpPc = "inRepository"
    /\ \E ret \in RepoAnswers(route) :
          /\ repoRet' = ret
          /\ svcRet' = ServiceReturn(ret)
          /\ resp' = HandleReturn(ServiceReturn(ret))
    /\ httpPc' = "responded"
    /\ UNCHANGED <<httpMethod, path, route, body, req, svcCalls, repoCalls>>
    /\ UNCHANGED <<repoVars, rowsVars, convVars, infoVars, pairVars>>

\* ------------------------------------------------------------ router
\* The paths setupRouter registers under /api/v1/procedures.
CallPath == "/api/v1/procedures/call"

InfoPath == "/api/v1/procedures/info"

\* setupRouter: r.Post("/call", ...) and r.Get("/info", ...).  A registered path
\* asked for with another method is answered by the router itself.
setupRouter(m, p) ==
    CASE m = "POST" /\ p = CallPath -> "call"
      [] m = "GET" /\ p = InfoPath -> "info"
      [] OTHER -> "methodNotAllowed"

\* The router's own answer: 405 Method Not Allowed with an empty body.
MethodNotAllowed == [status |-> 405, message |-> <<>>, success |-> FALSE, data |-> GoNil]

\* A request arrives at the router, which hands it to the handler registered for
\* its method and path or answers it itself.
Route ==
    /\ httpPc = "idle"
    /\ \E m \in {"GET", "POST", "PUT"}, p \in {CallPath, InfoPath} :
          /\ httpMethod' = m
          /\ path' = p
          /\ body' \in Bodies(IF p = CallPath THEN "call" ELSE "info")
          /\ IF setupRouter(m, p) = "methodNotAllowed"
             THEN /\ resp' = MethodNotAllowed
                  /\ httpPc' = "responded"
                  /\ UNCHANGED route
             ELSE /\ route' = setupRouter(m, p)
                  /\ httpPc' = "received"
                  /\ UNCHANGED resp
    /\ UNCHANGED <<req, svcCalls, repoCalls, repoRet, svcRet>>
    /\ UNCHANGED <<repoVars, rowsVars, convVars, infoVars, pairVars>>

\* ------------------------------------------------------------ procedure information
\* A column of a catalog row: NULL (of a text column, of a number column; v is
\* then a filler that no reader may use), or a value.
Null == [valid |-> FALSE, v |-> <<"?">>]

NullNumber == [valid |-> FALSE, v |-> 0 - 1]

NotNull(v) == [valid |-> TRUE, v |-> v]

\* Rows of ALL_ARGUMENTS as the query delivers them.
CatalogRows ==
    [argument_name : {Null, NotNull(<<"P","_","I","D">>)},
     data_type : {Null, NotNull(<<"N","U","M","B","E","R">>)},
     in_out : {NotNull(<<"I","N">>)},
     position : {NullNumber, NotNull(1), NotNull(2)},
     default_value : {Null, NotNull(<<"1","0","0">>)}]

\* What the catalog query can do: fail, or deliver up to MaxRows rows, where a
\* Scan may fail (scanFailAt) and the iteration may have ended on an error (iterErr).
CatalogAnswers ==
    {[queryErr |-> e, data |-> <<>>, scanFailAt |-> 0, iterErr |-> FALSE] : e \in DbErrors}
        \cup UNION {[queryErr : {<<>>}, data : [1..n -> CatalogRows],
                     scanFailAt : 0..MaxRows, iterErr : BOOLEAN] : n \in 0..MaxRows}

\* InfoRow with a slip: a NULL column is recorded as nil.
InfoRow_NullAsNil(r) ==
    LET String(c) == IF c.valid THEN GoString(c.v) ELSE GoNil
        Int64(c) == IF c.valid THEN [t |-> "int64", v |-> c.v] ELSE GoNil
    IN  Put(Put(Put(Put(Put(EmptyMap,
            <<"a","r","g","u","m","e","n","t","_","n","a","m","e">>, String(r.argument_name)),
            <<"d","a","t","a","_","t","y","p","e">>, String(r.data_type)),
            <<"i","n","_","o","u","t">>, String(r.in_out)),
            <<"p","o","s","i","t","i","o","n">>, Int64(r.position)),
            <<"d","e","f","a","u","l","t","_","v","a","l","u","e">>, String(r.default_value))

\* rows.Scan into sql.NullString / sql.NullInt64 and the mapping built from
\* their String and Int64 fields, which hold the zero value for a NULL column.
InfoRow(r) ==
    LET String(c) == GoString(IF c.valid THEN c.v ELSE <<>>)
        Int64(c) == [t |-> "int64", v |-> IF c.valid THEN c.v ELSE 0]
    IN  Put(Put(Put(Put(Put(EmptyMap,
            <<"a","r","g","u","m","e","n","t","_","n","a","m","e">>, String(r.argument_name)),
            <<"d","a","t","a","_","t","y","p","e">>, String(r.data_type)),
            <<"i","n","_","o","u","t">>, String(r.in_out)),
            <<"p","o","s","i","t","i","o","n">>, Int64(r.position)),
            <<"d","e","f","a","u","l","t","_","v","a","l","u","e">>, String(r.default_value))

\* The loop "for rows.Next()" of GetProcedureInfo from row i on; rows.Err is not
\* consulted after it.
RECURSIVE InfoFrom(_, _, _)
InfoFrom(cat, i, acc) ==
    IF i > Len(cat.data)
    THEN [result |-> [isNil |-> acc = <<>>, m |-> acc], err |-> NoError]
    ELSE IF cat.scanFailAt = i
         THEN [result |-> NilResult,
               err |-> Errorf("rows", <<"s","c","a","n"," ","f","a","i","l","e","d",":"," ">>, <<>>, <<>>, <<"b","a","d"," ","c","o","l","u","m","n">>)]
         ELSE InfoFrom(cat, i + 1, Append(acc, InfoRow(cat.data[i])))

\* OracleRepository.GetProcedureInfo: the query is run with the name as given
\* (the statement applies UPPER to it).
GetProcedureInfo(n, cat) ==
    IF cat.queryErr # <<>>
    THEN [args |-> <<n>>, open |-> FALSE, result |-> NilResult,
          err |-> Errorf("query", <<"f","a","i","l","e","d"," ","t","o"," ","q","u","e","r","y"," ","p","r","o","c","e","d","u","r","e"," ","i","n","f","o",":"," ">>, <<>>, <<>>, cat.queryErr)]
    ELSE \* defer rows.Close(): the row set is closed on every return after the query
         [args |-> <<n>>, open |-> FALSE, result |-> InfoFrom(cat, 1, <<>>).result,
          err |-> InfoFrom(cat, 1, <<>>).err]

\* GetProcedureInfo has been called for a procedure name.
InitInfo ==
    /\ RepoIdle /\ RowsIdle /\ ConvIdle /\ HttpIdle /\ PairIdle
    /\ infoPc = "called"
    /\ procedureName \in {<<"c","a","l","c">>, <<"C","a","l","c">>, <<"C","A","L","C">>}
    /\ catalog \in CatalogAnswers
    /\ queryArgs = <<>>
    /\ infoRowsOpen = FALSE
    /\ infoResult = NilResult
    /\ infoErr = NoError

\* GetProcedureInfo runs to its return.
QueryInfo ==
    /\ infoPc = "called"
    /\ LET r == GetProcedureInfo(procedureName, catalog)
       IN  /\ queryArgs' = r.args
           /\ infoRowsOpen' = r.open
           /\ infoResult' = r.result
           /\ infoErr' = r.err
    /\ infoPc' = "returned"
    /\ UNCHANGED <<procedureName, catalog, repoVars, rowsVars, convVars, httpVars, pairVars>>

\* ------------------------------------------------------------ invocations on one repository
\* Parameter lists of the interleaved calls: none, scalar outputs, an input with
\* a cursor output, an INOUT with a repeated name, and a list that cannot be bound.
PairParamLists ==
    {<<>>,
     <<[Name |-> <<"a">>, Type |-> <<"N","U","M","B","E","R">>, Direction |-> <<"O","U","T">>, Value |-> GoNil],
       [Name |-> <<"b">>, Type |-> <<"v","a","r","c","h","a","r","2">>, Direction |-> <<"O","U","T">>, Value |-> GoNil]>>,
     <<[Name |-> <<"a">>, Type |-> <<"v","a","r","c","h","a","r","2">>, Direction |-> <<"I","N">>, Value |-> GoInt(7)],
       [Name |-> <<"b">>, Type |-> <<"s","y","s","_","r","e","f","c","u","r","s","o","r">>, Direction |-> <<"O","U","T">>, Value |-> GoNil]>>,
     <<[Name |-> <<"a">>, Type |-> <<"D","A","T","E">>, Direction |-> <<"I","N","O","U","T">>, Value |-> GoString(<<"7">>)],
       [Name |-> <<"a">>, Type |-> <<"B","O","O","L","E","A","N">>, Direction |-> <<"O","U","T">>, Value |-> GoNil]>>,
     <<[Name |-> <<"a">>, Type |-> <<"N","U","M","B","E","R">>, Direction |-> <<"O","U","T">>, Value |-> GoNil],
       [Name |-> <<"b">>, Type |-> <<"N","U","M","B","E","R">>, Direction |-> <<"s","i","d","e">>, Value |-> GoNil]>>}

\* SetCall with a slip: the destination map is kept in the repository, so the
\* invocation that writes it last replaces it for both.
SetCall_SharedDestinations(cs, k, c) ==
    [j \in DOMAIN cs |-> IF j = k THEN c ELSE [cs[j] EXCEPT !.outputParams = c.outputParams]]

\* The locals of invocation k become c.  args and outputParams are allocated
\* inside CallProcedure, the repository holds the database handle only, so the
\* locals of the other invocation stay as they are.
SetCall(cs, k, c) == [cs EXCEPT ![k] = c]

\* One pass of the binding loop of an invocation with locals c.
BindNext(c) ==
    LET i == Len(c.args) + 1
        b == BindOne(c.params[i], i)
    IN  IF b.err # NoError
        THEN [c EXCEPT !.pc = "done", !.result = NilResult, !.err = b.err]
        ELSE [c EXCEPT !.args = Append(@, b.arg),
                       !.outputParams = IF b.reg THEN PutDest(@, b.arg) ELSE @,
                       !.pc = IF i = Len(c.params) THEN "bound" ELSE "binding"]

\* Invocation k enters CallProcedure.
PairCall(k) ==
    /\ calls[k].pc = "idle"
    /\ \E n \in ProcNames, ps \in PairParamLists :
          calls' = SetCall(calls, k, [IdleCall EXCEPT !.name = n, !.params = ps,
                                                     !.pc = IF ps = <<>> THEN "bound"
                                                            ELSE "binding"])
    /\ UNCHANGED <<repoVars, rowsVars, convVars, httpVars, infoVars>>

\* Invocation k binds its next parameter.
PairBind(k) ==
    /\ calls[k].pc = "binding"
    /\ calls' = SetCall(calls, k, BindNext(calls[k]))
    /\ UNCHANGED <<repoVars, rowsVars, convVars, httpVars, infoVars>>

\* r.db.ExecContext of invocation k returns: an error, or the destinations of
\* its bound arguments filled.
PairExecute(k) ==
    /\ calls[k].pc = "bound"
    /\ \/ \E e \in DbErrors :
             calls' = SetCall(calls, k, [calls[k] EXCEPT !.dbErr = e,
                                                        !.err = ExecError(calls[k].name, e),
                                                        !.result = NilResult,
                                                        !.pc = "done"])
       \/ \E out \in DbAnswers(calls[k].args) :
             calls' = SetCall(calls, k, [calls[k] EXCEPT !.dbOut = out, !.pc = "executed"])
    /\ UNCHANGED <<repoVars, rowsVars, convVars, httpVars, infoVars>>

\* Invocation k returns r.processOutputParameters(params, outputParams).
PairNormalize(k) ==
    /\ calls[k].pc = "executed"
    /\ LET r == processOutputParameters(calls[k].params, calls[k].outputParams,
                                        calls[k].dbOut)
       IN  calls' = SetCall(calls, k, [calls[k] EXCEPT !.result = r.result, !.err = r.err,
                                                      !.pc = "done"])
    /\ UNCHANGED <<repoVars, rowsVars, convVars, httpVars, infoVars>>

\* The caller of invocation k has taken the result.
PairReturn(k) ==
    /\ calls[k].pc = "done"
    /\ calls' = SetCall(calls, k, IdleCall)
    /\ UNCHANGED <<repoVars, rowsVars, convVars, httpVars, infoVars>>

\* ------------------------------------------------------------ specifications
\* The state after construction: nothing is in progress in any component.
Init == RepoIdle /\ RowsIdle /\ ConvIdle /\ HttpIdle /\ InfoIdle /\ PairIdle

Next == Call \/ Bind \/ ExecuteFail \/ ExecuteOk \/ Normalize \/ Return

Spec == Init /\ [][Next]_vars

Succeeded == pc = "done" /\ err = NoError

\* Row materialization alone, over every row set of the bounds.
NextRows == Materialize

SpecRows == InitRows /\ [][NextRows]_vars

\* A call whose context the caller may cancel while it is in progress.
NextCtx == Next \/ Cancel

SpecCtx == Init /\ [][NextCtx]_vars

\* The binding of one input parameter alone, over every type and value of the bounds.
NextConvert == BindInput

SpecConvert == InitConvert /\ [][NextConvert]_vars

\* One request through handler, service and repository.
NextHttp == Receive \/ Handle \/ RepositoryReturns

SpecHttp == Init /\ [][NextHttp]_vars

\* One request through the router, then handler, service and repository.
NextRouter == Route \/ Handle \/ RepositoryReturns

SpecRouter == Init /\ [][NextRouter]_vars

\* GetProcedureInfo alone, over every catalog answer of the bounds.
NextInfo == QueryInfo

SpecInfo == InitInfo /\ [][NextInfo]_vars

\* Invocations of CallProcedure interleaved step by step.
NextPair ==
    \E k \in Invocations :
        PairCall(k) \/ PairBind(k) \/ PairExecute(k) \/ PairNormalize(k) \/ PairReturn(k)

SpecPair == Init /\ [][NextPair]_vars

\* ------------------------------------------------------------ vocabulary of the properties
\* The pairs made of the two cases of one letter.
CasePairs == {<<LowerLetters[k], UpperLetters[k]>> : k \in DOMAIN LowerLetters}
                 \cup {<<UpperLetters[k], LowerLetters[k]>> : k \in DOMAIN LowerLetters}

\* Two strings that differ at most in the letter case of their characters.
EqualFold(s, t) ==
    /\ Len(s) = Len(t)
    /\ \A i \in DOMAIN s : s[i] = t[i] \/ <<s[i], t[i]>> \in CasePairs

DirIs(p, D) == EqualFold(p.Direction, D)

IsInParam(p) == DirIs(p, <<"I","N">>)

IsOutputParam(p) == DirIs(p, <<"O","U","T">>) \/ DirIs(p, <<"I","N","O","U","T">>)

Unsupported(p) == ~IsInParam(p) /\ ~IsOutputParam(p)

\* The cursor types of the specification's data model.
DeclaredCursor(p) == EqualFold(p.Type, <<"R","E","F","_","C","U","R","S","O","R">>) \/ EqualFold(p.Type, <<"S","Y","S","_","R","E","F","C","U","R","S","O","R">>)

\* The call has gone past the binding loop, one way or the other.
PastBinding == pc \in {"bound", "executed", "done"}

NoDatabaseInteraction == execCount = 0 /\ query = <<>> /\ execArgs = <<>> /\ destReads = {}

Keys == DOMAIN result.m

\* A value of the result: null, a scalar, or a sequence of row mappings.
IsResultValue(v) ==
    \/ v.t \in {"nil", "string", "float64", "int", "int64", "bool", "bytes", "time"}
    \/ v.t = "rows" /\ \A k \in DOMAIN v.v : \A c \in DOMAIN v.v[k] : v.v[k][c].t # "rows"

\* ------------------------------------------------------------ C1
\* C1 as stated: after a successful call, no parameter of direction IN (any
\* letter case) has its name among the keys of the result.
C1_InNameNeverKey ==
    Succeeded => \A i \in DOMAIN params : IsInParam(params[i]) => params[i].Name \notin Keys

\* C1, amended: after a successful call, a parameter of direction IN has its name
\* among the keys of the result only if a parameter of direction OUT or INOUT
\* carries the same name; every key is the name of an OUT or INOUT parameter.
C1_InNameKeyOnlyIfShared ==
    Succeeded =>
        /\ \A i \in DOMAIN params :
              IsInParam(params[i]) /\ params[i].Name \in Keys =>
                  \E j \in DOMAIN params :
                      IsOutputParam(params[j]) /\ params[j].Name = params[i].Name
        /\ \A k \in Keys : \E j \in DOMAIN params : IsOutputParam(params[j]) /\ params[j].Name = k

C1_Witness ==
    /\ Succeeded
    /\ \E i, j \in DOMAIN params :
          /\ IsInParam(params[i]) /\ params[i].Direction # <<"I","N">>
          /\ IsOutputParam(params[j])
          /\ params[i].Name \notin Keys
          /\ params[j].Name \in Keys

\* ------------------------------------------------------------ C2
\* C2: after a successful call, every parameter of direction OUT or INOUT has its
\* name as a key of the result (a map: one entry per key), and the value under it
\* is null, a scalar or a sequence of row mappings.
C2_EveryOutputRecorded ==
    Succeeded =>
        \A i \in DOMAIN params :
            IsOutputParam(params[i]) =>
                /\ params[i].Name \in Keys
                /\ IsResultValue(result.m[params[i].Name])

C2_Witness ==
    /\ Succeeded
    /\ \E i, j \in DOMAIN params :
          /\ DirIs(params[i], <<"O","U","T">>) /\ params[i].Name \in Keys
          /\ result.m[params[i].Name].t = "rows"
          /\ DirIs(params[j], <<"I","N","O","U","T">>) /\ params[j].Name \in Keys
          /\ result.m[params[j].Name] = GoNil

\* ------------------------------------------------------------ C3
\* C3 as stated: a parameter list with a cursor-typed parameter (REF_CURSOR or
\* SYS_REFCURSOR, any letter case) of direction INOUT ends the call with a
\* configuration error, a nil result and no statement sent to the database.
C3_CursorInOutRejected ==
    (PastBinding /\ \E i \in DOMAIN params :
                        DeclaredCursor(params[i]) /\ DirIs(params[i], <<"I","N","O","U","T">>))
        => /\ pc = "done"
           /\ err.kind = "config"
           /\ result.isNil
           /\ NoDatabaseInteraction

\* ------------------------------------------------------------ C4
\* C4 as stated: when some parameter has an unsupported direction, the call ends
\* with a nil result and an error whose text contains the direction string of
\* that parameter, and no statement is sent to the database.
C4_EveryUnsupportedNamed ==
    PastBinding =>
        \A i \in DOMAIN params :
            Unsupported(params[i]) =>
                /\ pc = "done"
                /\ result.isNil
                /\ err # NoError
                /\ Contains(err.text, params[i].Direction)
                /\ NoDatabaseInteraction

\* The first parameter of the list that the binding loop cannot bind, 0 if none.
FirstUnbindable ==
    IF \E i \in DOMAIN params : BindOne(params[i], i).err # NoError
    THEN CHOOSE i \in DOMAIN params :
             /\ BindOne(params[i], i).err # NoError
             /\ \A j \in 1..(i - 1) : BindOne(params[j], j).err = NoError
    ELSE 0

\* C4, amended: when some parameter has an unsupported direction, the call ends
\* with a nil result and a configuration error and no statement is sent to the
\* database, however many parameters were bound before; the text of the error
\* ends with the exact direction string of the first parameter that could not be
\* bound, when that parameter is one of unsupported direction.
C4_FirstUnsupportedNamed ==
    (PastBinding /\ \E i \in DOMAIN params : Unsupported(params[i])) =>
        /\ pc = "done"
        /\ result.isNil
        /\ err.kind = "config"
        /\ NoDatabaseInteraction
        /\ Unsupported(params[FirstUnbindable]) =>
              /\ err.text = <<"u","n","s","u","p","p","o","r","t","e","d"," ","p","a","r","a","m","e","t","e","r"," ","d","i","r","e","c","t","i","o","n",":"," ">> \o params[FirstUnbindable].Direction
              /\ Len(args) = FirstUnbindable - 1

C4_Witness ==
    /\ pc = "done"
    /\ Len(params) = 2
    /\ IsOutputParam(params[1])
    /\ params[2].Direction = <<"s","i","d","e">>
    /\ Len(args) = 1
    /\ params[1].Name \in DOMAIN outputParams
    /\ Contains(err.text, <<"s","i","d","e">>)
    /\ NoDatabaseInteraction

\* ------------------------------------------------------------ C5
\* The directions of the input set that differ from d at most in letter case.
DirectionVariants == [d \in Directions |-> {e \in Directions : EqualFold(d, e)}]

\* The parameter lists that differ from ps at most in the letter case of the
\* direction strings.
CaseVariants(ps) ==
    {[i \in DOMAIN ps |-> [ps[i] EXCEPT !.Direction = g[i]]] :
        g \in {f \in [DOMAIN ps -> Directions] :
                  \A i \in DOMAIN ps : f[i] \in DirectionVariants[ps[i].Direction]}}

\* The call on the parameter list v reaches the same point with the same bound
\* arguments, statement and result as the call in progress.
SameOutcome(v) ==
    LET b == BindAll(v)
        r == processOutputParameters(v, b.outs, dbOut)
    IN  /\ b.args = args
        /\ b.outs = outputParams
        /\ (b.err = NoError) = ~(pc = "done" /\ err.kind = "config")
        /\ execCount = 1 => BuildQuery(name, v) = query /\ b.args = execArgs
        /\ Succeeded => r.err = NoError /\ DOMAIN r.result.m = Keys /\ r.result = result

\* C5: changing only the letter case of the direction strings changes neither
\* the bound arguments and registered destinations, nor whether and which
\* statement is executed, nor the keys (and values) of the result.
C5_DirectionCaseInsensitive ==
    PastBinding => \A v \in CaseVariants(params) : SameOutcome(v)

C5_Witness ==
    /\ Succeeded
    /\ Len(params) = 2
    /\ params[1].Direction = <<"i","n">>
    /\ params[2].Direction = <<"i","n","o","u","t">>
    /\ Keys = {params[2].Name}
    /\ Cardinality(CaseVariants(params)) = 4

\* ------------------------------------------------------------ C6
\* C6: when the execution of the block fails, the call returns a nil result and
\* an error that wraps the database error and names the procedure; the statement
\* was executed once and no output destination was read.  No call executes more
\* than one statement.
C6_ExecutionFailureWrapped ==
    /\ execCount <= 1
    /\ (pc = "done" /\ dbErr # <<>>) =>
          /\ result.isNil
          /\ err.kind = "exec"
          /\ err.cause = dbErr
          /\ Contains(err.text, name)
          /\ Contains(err.text, dbErr)
          /\ execCount = 1
          /\ destReads = {}

C6_Witness ==
    /\ pc = "done"
    /\ dbErr # <<>>
    /\ err.kind = "exec"
    /\ DOMAIN outputParams # {}
    /\ execCount = 1

\* ------------------------------------------------------------ C7
\* C7: a call with an empty parameter list executes exactly the block
\* "BEGIN <name>(); END;" without bind arguments and, when the execution
\* succeeds, returns an empty map that is not nil, and no error.
C7_EmptyParameterList ==
    (params = <<>> /\ pc \in {"executed", "done"}) =>
        /\ query = <<"B","E","G","I","N"," ">> \o name \o <<"(",")",";"," ","E","N","D",";">>
        /\ execArgs = <<>>
        /\ execCount = 1
        /\ (pc = "done" /\ dbErr = <<>>) =>
              /\ err = NoError
              /\ ~result.isNil
              /\ result.m = EmptyMap

C7_Witness ==
    /\ params = <<>>
    /\ Succeeded
    /\ execCount = 1
    /\ ~result.isNil

\* ------------------------------------------------------------ C8
\* The position of the first occurrence of sep in s, 0 if there is none.
FirstAt(s, sep) ==
    IF Contains(s, sep)
    THEN CHOOSE k \in 1..Len(s) :
             /\ k + Len(sep) - 1 <= Len(s)
             /\ SubSeq(s, k, k + Len(sep) - 1) = sep
             /\ \A h \in 1..(k - 1) : SubSeq(s, h, h + Len(sep) - 1) # sep
    ELSE 0

\* The pieces of s between the occurrences of sep.
RECURSIVE SplitOn(_, _)
SplitOn(s, sep) ==
    IF s = <<>> THEN <<>>
    ELSE IF FirstAt(s, sep) = 0 THEN <<s>>
    ELSE <<SubSeq(s, 1, FirstAt(s, sep) - 1)>>
             \o SplitOn(SubSeq(s, FirstAt(s, sep) + Len(sep), Len(s)), sep)

\* What stands between "BEGIN <name>(" and "); END;" in the executed block.
ArgumentList == SubSeq(query, Len(<<"B","E","G","I","N"," ">>) + Len(name) + 2, Len(query) - Len(<<")",";"," ","E","N","D",";">>))

\* C8: the executed block is "BEGIN <name>(...); END;" with one placeholder per
\* parameter, in the order of the parameter list, each ":" followed by the name
\* of its parameter; the i-th bind argument is the bound form of the i-th parameter.
C8_PlaceholderPerParameter ==
    execCount = 1 =>
        /\ SubSeq(query, 1, Len(<<"B","E","G","I","N"," ">>) + Len(name) + 1) = <<"B","E","G","I","N"," ">> \o name \o <<"(">>
        /\ SubSeq(query, Len(query) - Len(<<")",";"," ","E","N","D",";">>) + 1, Len(query)) = <<")",";"," ","E","N","D",";">>
        /\ Len(SplitOn(ArgumentList, <<","," ">>)) = Len(params)
        /\ \A i \in DOMAIN params : SplitOn(ArgumentList, <<","," ">>)[i] = <<":">> \o params[i].Name
        /\ Len(execArgs) = Len(params)
        /\ \A i \in DOMAIN params :
              /\ execArgs[i].Name = params[i].Name
              /\ execArgs[i] = BindOne(params[i], i).arg
              /\ IsInParam(params[i]) => execArgs[i].Form = "In" /\ execArgs[i].In = convertInputValue(params[i])
              /\ DirIs(params[i], <<"O","U","T">>) => execArgs[i].Form = "Out" /\ execArgs[i].Ptr = i
              /\ DirIs(params[i], <<"I","N","O","U","T">>) => execArgs[i].Form = "InOutStruct" /\ execArgs[i].Ptr = i

C8_Witness ==
    /\ execCount = 1
    /\ Len(params) = 2
    /\ params[1].Name # params[2].Name
    /\ IsInParam(params[1])
    /\ DirIs(params[2], <<"O","U","T">>)
    /\ query = <<"B","E","G","I","N"," ","c","a","l","c","(",":">> \o params[1].Name \o <<","," ",":">> \o params[2].Name \o <<")",";"," ","E","N","D",";">>

\* ------------------------------------------------------------ C9
NameIsUnique(i) == \A j \in DOMAIN params : j # i => params[j].Name # params[i].Name

\* C9 as stated: after a successful call, a cursor-typed OUT parameter (declared
\* REF_CURSOR, SYS_REFCURSOR or REF CURSOR) maps to null when the procedure left
\* its cursor unset and to the materialized rows when the cursor is set.  (The
\* parameter is the only one of its name.)
C9_CursorNullOrRows ==
    Succeeded =>
        \A i \in DOMAIN params :
            (/\ DirIs(params[i], <<"O","U","T">>)
             /\ DeclaredCursor(params[i]) \/ IsCursorType(params[i].Type)
             /\ NameIsUnique(i)) =>
                /\ params[i].Name \in Keys
                /\ ~dbOut[i].present => result.m[params[i].Name] = GoNil
                /\ dbOut[i].present => result.m[params[i].Name].t = "rows"

\* ------------------------------------------------------------ C10
NullableDests == {"NullFloat64", "NullString", "NullTime"}

\* C10 as stated: after a successful call, a non-cursor OUT or INOUT parameter
\* with a nullable numeric, text or temporal destination maps to null exactly
\* when the presence flag of its destination is false, and else to the scalar
\* of its destination.
C10_NullIffFlagFalse ==
    Succeeded =>
        \A i \in DOMAIN params :
            (IsOutputParam(params[i]) /\ args[i].Dest \in NullableDests) =>
                /\ params[i].Name \in Keys
                /\ (result.m[params[i].Name] = GoNil) = ~dbOut[i].present
                /\ dbOut[i].present => result.m[params[i].Name] = StoredScalar(args[i].Dest)

\* C10, amended: the same, for a parameter that no later OUT or INOUT parameter
\* of the list shares its name with (the destination registered last under a
\* name is the one that is read).
C10_NullIffFlagFalseOfLastNamed ==
    Succeeded =>
        \A i \in DOMAIN params :
            (/\ IsOutputParam(params[i])
             /\ args[i].Dest \in NullableDests
             /\ \A j \in DOMAIN params :
                   (j > i /\ IsOutputParam(params[j])) => params[j].Name # params[i].Name) =>
                /\ params[i].Name \in Keys
                /\ (result.m[params[i].Name] = GoNil) = ~dbOut[i].present
                /\ dbOut[i].present => result.m[params[i].Name] = StoredScalar(args[i].Dest)

C10_Witness ==
    /\ Succeeded
    /\ Len(params) = 2
    /\ params[1].Name # params[2].Name
    /\ DirIs(params[1], <<"O","U","T">>) /\ args[1].Dest = "NullFloat64"
    /\ DirIs(params[2], <<"I","N","O","U","T">>) /\ args[2].Dest = "NullString"
    /\ ~dbOut[1].present /\ result.m[params[1].Name] = GoNil
    /\ dbOut[2].present /\ result.m[params[2].Name] = GoString(<<"o","k">>)

\* ------------------------------------------------------------ row materialization: properties
Materialized == rowsPc = "returned" /\ rowsErr = NoError

\* The text s is an RFC 3339 timestamp that denotes the instant and zone of tm.
DenotesTime(s, tm) ==
    /\ Len(s) \in {20, 25}
    /\ \A i \in {1, 2, 3, 4, 6, 7, 9, 10, 12, 13, 15, 16, 18, 19} : IndexIn(s[i], Digits) > 0
    /\ s[5] = "-" /\ s[8] = "-" /\ s[11] = "T" /\ s[14] = ":" /\ s[17] = ":"
    /\ 100 * TwoDigits(s, 1) + TwoDigits(s, 3) = tm.year
    /\ TwoDigits(s, 6) = tm.month /\ TwoDigits(s, 9) = tm.day
    /\ TwoDigits(s, 12) = tm.hour /\ TwoDigits(s, 15) = tm.minute
    /\ TwoDigits(s, 18) = tm.second
    /\ IF Len(s) = 20
       THEN s[20] = "Z" /\ tm.offset = 0
       ELSE /\ s[20] \in {"+", "-"} /\ s[23] = ":"
            /\ \A i \in {21, 22, 24, 25} : IndexIn(s[i], Digits) > 0
            /\ tm.offset # 0
            /\ tm.offset = (IF s[20] = "-" THEN 0 - 1 ELSE 1)
                               * (60 * TwoDigits(s, 21) + TwoDigits(s, 24))

\* The value out stands in a row mapping for the scanned value v.
Presents(out, v) ==
    CASE v.t = "bytes" -> out = GoString(v.v)
      [] v.t = "time" -> out.t = "string" /\ DenotesTime(out.v, v.v)
      [] OTHER -> out = v

\* One mapping per fetched row, in fetch order, keyed by exactly the column names.
OneMappingPerRow ==
    /\ Len(rowsResult) = Len(rows.data)
    /\ \A i \in DOMAIN rowsResult :
          DOMAIN rowsResult[i] = {rows.cols[j] : j \in DOMAIN rows.cols}

\* C11 Materializing a cursor yields one row mapping per fetched row, in fetch
\* order, keyed by exactly the column names, and the value of every column
\* appears in it: bytes as their text, a time as an RFC 3339 string, any other
\* value unchanged.
C11_EveryColumnPresented ==
    Materialized =>
        /\ OneMappingPerRow
        /\ \A i \in DOMAIN rowsResult : \A j \in DOMAIN rows.cols :
              Presents(rowsResult[i][rows.cols[j]], rows.data[i][j])

\* The last column that carries the name of column j.
LastNamed(cols, j) == CHOOSE k \in DOMAIN cols :
                          /\ cols[k] = cols[j]
                          /\ \A l \in DOMAIN cols : cols[l] = cols[j] => l <= k

\* C11 (amended) As above, where a column name that occurs more than once in the
\* cursor holds the value of the last column of that name.
C11_LastColumnOfNamePresented ==
    Materialized =>
        /\ OneMappingPerRow
        /\ \A i \in DOMAIN rowsResult : \A j \in DOMAIN rows.cols :
              Presents(rowsResult[i][rows.cols[j]], rows.data[i][LastNamed(rows.cols, j)])

\* Two rows of distinct columns were materialized, with bytes in the first row and
\* a time of a zone other than UTC in the second.
C11_Witness ==
    /\ Materialized
    /\ rows.cols = <<<<"i","d">>, <<"r","a","w">>>>
    /\ Len(rows.data) = 2
    /\ rows.data[1][2] = GoBytes(<<"a","b">>) /\ rowsResult[1][<<"r","a","w">>] = GoString(<<"a","b">>)
    /\ rows.data[2][1] = GoTime(TimeB)
    /\ rowsResult[2][<<"i","d">>] = GoString(<<"1","9","9","9","-","1","2","-","3","1","T","2","3",":","5","9",":","5","8","+","0","2",":","0","0">>)
    /\ rows.data[2][2] = GoNil /\ rowsResult[2][<<"r","a","w">>] = GoNil

\* The scan that fails, if one does among the rows delivered.
ScanFails == ~rows.colsErr /\ rows.scanFailAt \in 1..Len(rows.data)

\* C12 Materialization stops at the first row that fails to scan or at a terminal
\* iteration error and returns an error with no rows; whichever way it returns
\* (column lookup failure, scan failure, iteration error, success), the row set
\* has been closed.
C12_StopsAtFirstFailureAndCloses ==
    rowsPc = "returned" =>
        /\ closed
        /\ rowsErr # NoError => rowsResult = <<>>
        /\ rows.colsErr => rowsErr # NoError /\ fetched = 0
        /\ ScanFails => rowsErr # NoError /\ fetched = rows.scanFailAt
        /\ ~rows.colsErr /\ ~ScanFails /\ rows.iterErr =>
              rowsErr # NoError /\ fetched = Len(rows.data)
        /\ ~rows.colsErr /\ ~ScanFails /\ ~rows.iterErr =>
              rowsErr = NoError /\ fetched = Len(rows.data)

\* The first of two rows failed to scan: the second was not fetched, no row was
\* returned and the row set was closed.
C12_Witness ==
    /\ rowsPc = "returned"
    /\ Len(rows.data) = 2 /\ rows.scanFailAt = 1 /\ ~rows.colsErr
    /\ fetched = 1 /\ rowsResult = <<>> /\ closed
    /\ Contains(rowsErr.text, <<"s","c","a","n"," ","f","a","i","l","e","d">>)

\* ------------------------------------------------------------ cancellation: properties
\* Some cursor of the result has rows to fetch.
FetchesCursor ==
    \E i \in DOMAIN params :
        /\ i \in DOMAIN dbOut
        /\ IsOutputParam(params[i]) /\ IsCursorType(params[i].Type)
        /\ dbOut[i].wrap = "rows"

\* errors.Is(err, context.Canceled) with no result.
AbortedByCancellation == result = NilResult /\ err.cause = ContextCanceled

\* C13 A call whose context was cancelled while it was in procedure execution, or
\* while it had the rows of a cursor still to fetch, has ended with a nil result
\* and a cancellation error.
C13_CancellationAborts ==
    pc = "done" =>
        /\ ctxDoneAt = "bound" => AbortedByCancellation
        /\ ctxDoneAt = "executed" /\ FetchesCursor => AbortedByCancellation

\* ------------------------------------------------------------ input conversion: properties
\* The decimal numerals of the whole number n: an optional sign and leading zeros.
Numerals(n) ==
    {sign \o zeros \o NatText(IF n < 0 THEN 0 - n ELSE n) :
        sign \in (IF n < 0 THEN {<<"-">>} ELSE {<<>>, <<"+">>}),
        zeros \in {<<>>, <<"0">>, <<"0","0">>}}

\* The whole numbers the numerals of the source values can denote.
Denoted == (0 - 20)..20

IsNumeric(v) == v.t \in {"int", "int64", "float64"}

BoundInput(T) == convPc = "bound" /\ ToUpper(param.Type) \in T

\* C14 For a numeric-typed IN parameter the Binder never fails: a float or
\* integer value is bound as the 64-bit float of the same value, a string that
\* parses as a number as the parsed float, and a string that does not parse as
\* the same string.
C14_NumericInputBinding ==
    BoundInput({<<"N","U","M","B","E","R">>, <<"I","N","T","E","G","E","R">>, <<"F","L","O","A","T">>, <<"D","O","U","B","L","E">>}) =>
        /\ bindErr = NoError
        /\ IsNumeric(param.Value) => bound = GoFloat64(param.Value.v)
        /\ param.Value.t = "string" =>
              /\ \A n \in Denoted : param.Value.v \in Numerals(n) => bound = GoFloat64(n)
              /\ (\A n \in Denoted : param.Value.v \notin Numerals(n)) => bound = param.Value

\* A NUMBER parameter whose value is the text "not-a-number" was bound as that text.
C14_Witness ==
    /\ BoundInput({<<"N","U","M","B","E","R">>})
    /\ param.Value = GoString(<<"n","o","t","-","a","-","n","u","m","b","e","r">>)
    /\ bound = GoString(<<"n","o","t","-","a","-","n","u","m","b","e","r">>)
    /\ bindErr = NoError

\* C20 For a BOOLEAN-typed IN parameter the bound value is true exactly when the
\* source value is the boolean true, a string equal to "true" in any case or to
\* "1", or a number other than zero; otherwise, a zero of any numeric
\* representation included, it is false.
C20_BooleanInputBinding ==
    BoundInput({<<"B","O","O","L","E","A","N">>}) =>
        bound = GoBool(\/ param.Value = GoBool(TRUE)
                       \/ /\ param.Value.t = "string"
                          /\ EqualFold(param.Value.v, <<"t","r","u","e">>) \/ param.Value.v = <<"1">>
                       \/ IsNumeric(param.Value) /\ param.Value.v # 0)

\* ------------------------------------------------------------ handlers and service: properties
Responded == httpPc = "responded"

Invoked == svcCalls # <<>>

RequestType == IF route = "call" THEN "CallProcedureRequest" ELSE "GetProcedureInfoRequest"

\* The body decodes as JSON and what it decodes to passes the handler's validation.
Acceptable ==
    /\ body.kind = "json"
    /\ Decode(body, RequestType).ok
    /\ route = "call" => Validate(Decode(body, RequestType).v) = NoError
    /\ route = "info" => Decode(body, RequestType).v.ProcedureName # <<>>

\* The body of the info route names no procedure.
NamesNoProcedure ==
    /\ route = "info" /\ body.kind = "json" /\ body.json.j = "object"
    /\ body.json.v.procedure_name \in {J("absent", 0), J("string", <<>>)}

\* C15 In both handlers the service is invoked at most once per request, and only
\* for a body that decoded and passed validation; every other request is answered
\* 400 without the service ("Invalid JSON format" for an empty or undecodable
\* body, "procedure_name is required" for a missing or empty procedure_name).
C15_ServiceOnlyAfterValidation ==
    /\ Len(svcCalls) <= 1
    /\ Invoked => route # "none" /\ Acceptable
    /\ Responded /\ ~Acceptable =>
          /\ ~Invoked
          /\ resp.status = 400
          /\ body.kind # "json" => resp.message = <<"I","n","v","a","l","i","d"," ","J","S","O","N"," ","f","o","r","m","a","t">>
          /\ NamesNoProcedure => resp.message = <<"p","r","o","c","e","d","u","r","e","_","n","a","m","e"," ","i","s"," ","r","e","q","u","i","r","e","d">>

\* A call request that names a procedure and one complete parameter was answered
\* after exactly one invocation of the service.
C15_Witness ==
    /\ Responded /\ route = "call"
    /\ Len(svcCalls) = 1
    /\ req.Name = <<"c","a","l","c">> /\ Len(req.Params) = 1
    /\ req.Params[1].Direction = <<"I","N">>

\* C16 When a handler has invoked the service, the response is 200 "Success" with
\* the service's result as data exactly when the service returned no error; for
\* an error it is 500 with the error's text as message, and the result is not in
\* the response.
C16_ResponseFollowsService ==
    Responded /\ Invoked =>
        /\ (resp.status = 200 /\ resp.message = <<"S","u","c","c","e","s","s">> /\ resp.data = svcRet.result)
              <=> svcRet.err = NoError
        /\ svcRet.err # NoError =>
              /\ resp.status = 500
              /\ resp.message = svcRet.err.text
              /\ resp.data = MapResult(EmptyMap)
              /\ resp.data # repoRet.result

\* The service failed with "database connection error" and the response is 500
\* with that message.
C16_Witness ==
    /\ Responded /\ Invoked
    /\ svcRet.err.text = <<"d","a","t","a","b","a","s","e"," ","c","o","n","n","e","c","t","i","o","n"," ","e","r","r","o","r">>
    /\ resp.status = 500 /\ resp.message = <<"d","a","t","a","b","a","s","e"," ","c","o","n","n","e","c","t","i","o","n"," ","e","r","r","o","r">>

\* A string with nothing but white space.
Blank(s) == \A i \in DOMAIN s : s[i] \in {" ", "\t", "\n", "\r"}

\* Some field the claim requires is blank in the request.
HasBlankField(r) ==
    \/ Blank(r.Name)
    \/ \E i \in DOMAIN r.Params :
          Blank(r.Params[i].Name) \/ Blank(r.Params[i].Type) \/ Blank(r.Params[i].Direction)

\* C17 Every call request with a blank procedure name, or with a parameter whose
\* name, type or direction is missing or blank, is rejected by validation with a
\* "... is required" error and answered 400, so no parameter with a blank
\* direction reaches the service or the repository.
C17_BlankFieldsRejected ==
    /\ \A k \in DOMAIN repoCalls : \A i \in DOMAIN repoCalls[k].params :
          ~Blank(repoCalls[k].params[i].Direction)
    /\ Responded /\ route = "call" /\ Decode(body, RequestType).ok /\ HasBlankField(req) =>
          /\ ~Invoked
          /\ resp.status = 400
          /\ Contains(resp.message, <<"i","s"," ","r","e","q","u","i","r","e","d">>)

\* C18 The service calls the repository exactly once, with the name and the
\* parameter list it was given; it returns the repository's result when the
\* repository reports no error, and a nil result with the same error when it
\* reports one.
C18_ServicePassesThrough ==
    /\ Len(repoCalls) = Len(svcCalls)
    /\ \A k \in DOMAIN svcCalls :
          IF svcCalls[k].route = "call"
          THEN repoCalls[k] = [method |-> "CallProcedure", name |-> svcCalls[k].req.Name,
                               params |-> svcCalls[k].req.Params]
          ELSE repoCalls[k] = [method |-> "GetProcedureInfo",
                               name |-> svcCalls[k].req.ProcedureName, params |-> <<>>]
    /\ Responded /\ Invoked =>
          /\ repoRet.err = NoError => svcRet = repoRet
          /\ repoRet.err # NoError => svcRet.result = NilResult /\ svcRet.err = repoRet.err

\* The repository returned context.Canceled next to a result: the service
\* returned that error and a nil result.
C18_Witness ==
    /\ Responded /\ Invoked
    /\ Len(repoCalls) = 1
    /\ repoRet.err.text = ContextCanceled /\ repoRet.result # NilResult
    /\ svcRet.err = repoRet.err /\ svcRet.result = NilResult

\* ------------------------------------------------------------ procedure information: properties
InfoKeys == {<<"a","r","g","u","m","e","n","t","_","n","a","m","e">>, <<"d","a","t","a","_","t","y","p","e">>, <<"i","n","_","o","u","t">>, <<"p","o","s","i","t","i","o","n">>, <<"d","e","f","a","u","l","t","_","v","a","l","u","e">>}

\* The text of a catalog column: empty for NULL.
TextOf(c) == IF c.valid THEN c.v ELSE <<>>

\* C19 GetProcedureInfo returns one mapping per catalog row, in the order the
\* query delivers them, each with exactly the keys argument_name, data_type,
\* in_out, position and default_value holding the row's values (a NULL column
\* as the empty string, or 0 for position); a failing query yields a nil result
\* and an error that wraps the database error.
C19_OneMappingPerCatalogRow ==
    infoPc = "returned" =>
        /\ catalog.queryErr # <<>> =>
              /\ infoResult = NilResult
              /\ infoErr # NoError
              /\ infoErr.cause = catalog.queryErr
              /\ Contains(infoErr.text, catalog.queryErr)
        /\ catalog.queryErr = <<>> /\ catalog.scanFailAt \notin 1..Len(catalog.data) =>
              /\ infoErr = NoError
              /\ Len(infoResult.m) = Len(catalog.data)
              /\ \A i \in DOMAIN catalog.data :
                    /\ DOMAIN infoResult.m[i] = InfoKeys
                    /\ infoResult.m[i][<<"a","r","g","u","m","e","n","t","_","n","a","m","e">>]
                           = GoString(TextOf(catalog.data[i].argument_name))
                    /\ infoResult.m[i][<<"d","a","t","a","_","t","y","p","e">>]
                           = GoString(TextOf(catalog.data[i].data_type))
                    /\ infoResult.m[i][<<"i","n","_","o","u","t">>] = GoString(TextOf(catalog.data[i].in_out))
                    /\ infoResult.m[i][<<"d","e","f","a","u","l","t","_","v","a","l","u","e">>]
                           = GoString(TextOf(catalog.data[i].default_value))
                    /\ infoResult.m[i][<<"p","o","s","i","t","i","o","n">>]
                           = [t |-> "int64",
                              v |-> IF catalog.data[i].position = NullNumber THEN 0
                                    ELSE catalog.data[i].position.v]

\* Two rows were returned in the order delivered (positions 2, then NULL); the
\* NULL position reads 0 and the NULL default value reads as the empty string.
C19_Witness ==
    /\ infoPc = "returned" /\ infoErr = NoError
    /\ Len(catalog.data) = 2
    /\ catalog.data[1].position = NotNull(2) /\ infoResult.m[1][<<"p","o","s","i","t","i","o","n">>].v = 2
    /\ catalog.data[2].position = NullNumber /\ infoResult.m[2][<<"p","o","s","i","t","i","o","n">>].v = 0
    /\ catalog.data[2].default_value = Null
    /\ infoResult.m[2][<<"d","e","f","a","u","l","t","_","v","a","l","u","e">>] = GoString(<<>>)

\* ------------------------------------------------------------ cursor destinations: properties
\* The binding loop has bound every parameter.
AllBound == PastBinding /\ Len(args) = Len(params)

\* C21 An OUT parameter whose declared type is a cursor type (REF_CURSOR or
\* SYS_REFCURSOR, any letter case) is bound to a cursor-handle destination, which
\* is none of the scalar destinations nor the dynamic one, and after a successful
\* call its result is what the cursor path records: null or a sequence of rows.
C21_CursorOutHasCursorDestination ==
    AllBound =>
        \A i \in DOMAIN params :
            DirIs(params[i], <<"O","U","T">>) /\ DeclaredCursor(params[i]) =>
                /\ args[i].Dest = "RefCursor"
                /\ args[i].Dest \notin {"NullFloat64", "NullString", "NullTime", "bool",
                                        "bytes", "any"}
                /\ Succeeded /\ NameIsUnique(i) =>
                      /\ params[i].Name \in Keys
                      /\ result.m[params[i].Name].t \in {"nil", "rows"}

\* ------------------------------------------------------------ INOUT binding: properties
\* The parameter p redeclared with direction d.
Redeclared(p, d) == [p EXCEPT !.Direction = d]

\* C22 For an INOUT parameter of non-cursor type the bound argument carries the
\* input value converted exactly as for an IN parameter of the same declared type
\* and an output destination of the kind an OUT parameter of that type gets; the
\* input value is not lost.
C22_InOutCarriesInputAndDestination ==
    AllBound =>
        \A i \in DOMAIN params :
            DirIs(params[i], <<"I","N","O","U","T">>) /\ ~DeclaredCursor(params[i]) =>
                /\ args[i].In = BindOne(Redeclared(params[i], <<"I","N">>), i).arg.In
                /\ args[i].In # GoNil
                /\ args[i].Dest = BindOne(Redeclared(params[i], <<"O","U","T">>), i).arg.Dest
                /\ args[i].Size = BindOne(Redeclared(params[i], <<"O","U","T">>), i).arg.Size
                /\ args[i].Ptr = i

\* A numeric INOUT parameter has been bound with its converted input value.
C22_Witness ==
    /\ AllBound
    /\ \E i \in DOMAIN params :
           /\ DirIs(params[i], <<"I","N","O","U","T">>)
           /\ ToUpper(params[i].Type) = <<"N","U","M","B","E","R">>
           /\ args[i].In = GoFloat64(7)
           /\ args[i].Dest = "NullFloat64"

\* ------------------------------------------------------------ order of one invocation: properties
\* Every parameter of the call can be bound.
BindingSucceeds == \A i \in DOMAIN params : BindOne(params[i], i).err = NoError

\* What has happened by each control point of CallProcedure.
StagesInOrder ==
    /\ execCount \in {0, 1}
    /\ pc = "binding" => args = <<>> /\ execCount = 0 /\ destReads = {}
    /\ pc = "bound" => BindingSucceeds /\ AllBound /\ execCount = 0 /\ destReads = {}
    /\ pc = "executed" => BindingSucceeds /\ execCount = 1 /\ execArgs = args /\ destReads = {}
    /\ pc = "done" => execCount = (IF BindingSucceeds THEN 1 ELSE 0)
    /\ destReads # {} => pc = "done" /\ execCount = 1 /\ dbErr = <<>>

\* How one step of CallProcedure may change the control point, the statement
\* count and the destinations read.
StepInOrder ==
    /\ pc' # pc => <<pc, pc'>> \in {<<"idle", "binding">>, <<"binding", "bound">>,
                                    <<"binding", "done">>, <<"bound", "executed">>,
                                    <<"bound", "done">>, <<"executed", "done">>,
                                    <<"done", "idle">>}
    /\ execCount' > execCount =>
           /\ pc = "bound"
           /\ execCount' = execCount + 1
           /\ execArgs' = args
           /\ Len(args) = Len(params)
    /\ args' # args /\ args' # <<>> => pc = "binding"
    /\ destReads' # destReads /\ destReads' # {} => pc = "executed" /\ dbErr = <<>>

\* C23 Each CallProcedure invocation binds all parameters, then executes, then
\* normalizes, no step repeated: exactly one statement is issued when binding
\* succeeds and none when it fails, and no output destination is read before the
\* execution has returned successfully.
C23_BindExecuteNormalizeInOrder == [](StagesInOrder) /\ [][StepInOrder]_vars

\* A call has gone through all three steps: bound, executed once, destinations read.
C23_Witness ==
    /\ pc = "done"
    /\ BindingSucceeds
    /\ execCount = 1
    /\ destReads # {}
    /\ Succeeded

\* ------------------------------------------------------------ interleaved invocations: properties
\* What an invocation with locals c returns when it runs alone and the database
\* answers as it answered c.
Alone(c) ==
    LET b == BindAll(c.params)
    IN  IF b.err # NoError THEN [result |-> NilResult, err |-> b.err]
        ELSE IF c.dbErr # <<>> THEN [result |-> NilResult, err |-> ExecError(c.name, c.dbErr)]
        ELSE [result |-> processOutputParameters(c.params, b.outs, c.dbOut).result,
              err |-> processOutputParameters(c.params, b.outs, c.dbOut).err]

\* C24 Invocations of CallProcedure interleaved on the same repository share no
\* mutable state but the database handle: the bound arguments and output
\* destinations of each are its own, and each returns what it would return if it
\* ran alone against the same database responses.
C24_InterleavedCallsAreIndependent ==
    \A k \in Invocations :
        /\ calls[k].pc \in {"bound", "executed"} =>
               /\ calls[k].args = BindAll(calls[k].params).args
               /\ calls[k].outputParams = BindAll(calls[k].params).outs
        /\ calls[k].pc = "done" =>
               /\ calls[k].result = Alone(calls[k]).result
               /\ calls[k].err = Alone(calls[k]).err

\* Both invocations have returned a result of their own, after binding different
\* destinations under the same parameter name.
C24_Witness ==
    /\ \A k \in Invocations : calls[k].pc = "done" /\ calls[k].err = NoError
                              /\ ~calls[k].result.isNil
    /\ calls[1].params # calls[2].params
    /\ calls[1].outputParams # calls[2].outputParams
    /\ DOMAIN calls[1].outputParams \cap DOMAIN calls[2].outputParams # {}
    /\ calls[1].result # calls[2].result

\* ------------------------------------------------------------ failing cursors: properties
\* The execution has returned without error and the call has ended.
ExecutedAndDone == pc = "done" /\ execCount = 1 /\ dbErr = <<>>

\* The cursor in destination cell c cannot be wrapped, scanned or iterated to its end.
FailingCell(c) ==
    \/ c.wrap = "err"
    \/ /\ c.wrap = "rows"
       /\ \/ c.rows.colsErr
          \/ c.rows.scanFailAt \in 1..Len(c.rows.data)
          \/ c.rows.iterErr

\* The destination registered under the name of parameter i.
DestOf(i) == outputParams[params[i].Name]

\* Processing the cursor registered for output parameter i has failed.
CursorFailed(i) ==
    /\ ExecutedAndDone
    /\ ~IsInParam(params[i])
    /\ params[i].Name \in DOMAIN outputParams
    /\ DestOf(i).Dest = "RefCursor"
    /\ DestOf(i).Ptr \in destReads
    /\ FailingCell(dbOut[DestOf(i).Ptr])

\* The text names n: n stands in it as a word of its own.
Names(text, n) ==
    \E k \in 1..Len(text) :
        /\ k + Len(n) - 1 <= Len(text)
        /\ SubSeq(text, k, k + Len(n) - 1) = n
        /\ k = 1 \/ text[k - 1] = " "
        /\ k + Len(n) > Len(text) \/ text[k + Len(n)] \in {" ", ":"}

\* C25 If wrapping, scanning or iterating the cursor of an output parameter fails,
\* CallProcedure returns an error whose text names that parameter and a nil
\* result, whatever was recorded before, and a row set acquired for the failing
\* parameter has been closed.
C25_CursorFailureNamesParameter ==
    \A i \in DOMAIN params :
        CursorFailed(i) =>
            /\ err # NoError
            /\ Names(err.text, params[i].Name)
            /\ result.isNil
            /\ dbOut[DestOf(i).Ptr].wrap = "rows" => DestOf(i).Ptr \in closedRows

\* The second parameter's cursor failed in a scan after the first parameter, a
\* scalar, had been read; the row set was closed and nothing is returned.
C25_Witness ==
    /\ Len(params) = 2
    /\ CursorFailed(2)
    /\ ~CursorFailed(1)
    /\ 1 \in destReads
    /\ dbOut[2].wrap = "rows"
    /\ dbOut[2].rows.scanFailAt = 2
    /\ 2 \in closedRows
    /\ result.isNil

\* ------------------------------------------------------------ router: properties
\* C26 A POST request to the info route is dispatched to
\* ProcedureHandler.GetProcedureInfo and is never answered with 405 Method Not
\* Allowed, the same as the call route.
C26_InfoSupportsPost ==
    (httpPc # "idle" /\ httpMethod = "POST" /\ path \in {CallPath, InfoPath}) =>
        /\ route = (IF path = CallPath THEN "call" ELSE "info")
        /\ Responded => resp.status # 405

\* ------------------------------------------------------------ catalog query: properties
\* GetProcedureInfo has returned.
InfoReturned == infoPc = "returned"

\* The catalog query succeeded and delivered no row.
NoCatalogRows == catalog.queryErr = <<>> /\ catalog.data = <<>> /\ ~catalog.iterErr

\* C27 GetProcedureInfo sends the upper-cased form of the given procedure name as
\* the single bind argument of the catalog query, and a name with no matching
\* catalog rows yields a nil result with no error.
C27_UpperCasedNameBound ==
    InfoReturned =>
        /\ queryArgs = <<ToUpper(procedureName)>>
        /\ NoCatalogRows => infoResult.isNil /\ infoErr = NoError

\* ------------------------------------------------------------ cursor release: properties
\* The database returned an open cursor for parameter i, a cursor-typed OUT parameter.
CursorReturned(i) ==
    /\ DirIs(params[i], <<"O","U","T">>)
    /\ IsCursorType(params[i].Type)
    /\ args[i].Dest = "RefCursor"
    /\ dbOut[i].wrap = "rows"

\* C28 When CallProcedure returns after the execution, with success or with an
\* error, every cursor the database returned for a cursor-typed OUT parameter has
\* been released, those of parameters after a failing one included.
C28_EveryCursorReleased ==
    ExecutedAndDone =>
        \A i \in DOMAIN params : CursorReturned(i) => i \in closedRows

\* ------------------------------------------------------------ response envelope: properties
\* A catalog answer without rows.
EmptyCatalog == [queryErr |-> <<>>, data |-> <<>>, scanFailAt |-> 0, iterErr |-> FALSE]

\* What the repository handed back is something OracleRepository returns on this
\* route: nothing next to an error, a map for every successful call, and for a
\* successful lookup a list or what GetProcedureInfo returns for no rows.
FromRepository ==
    /\ repoRet.err # NoError => repoRet.result.isNil
    /\ route = "call" /\ repoRet.err = NoError => ~repoRet.result.isNil
    /\ route = "info" /\ repoRet.err = NoError /\ repoRet.result.isNil =>
          /\ GetProcedureInfo(req.ProcedureName, EmptyCatalog).result = repoRet.result
          /\ GetProcedureInfo(req.ProcedureName, EmptyCatalog).err = NoError

\* The data of the envelope is written as JSON null.
DataIsNull == resp.data = GoNil \/ resp.data.isNil

\* C29 With handler, service and repository composed, the data field of every
\* response envelope is never null: a nil payload is replaced by an empty object,
\* and a successful info lookup for a procedure without catalog rows answers 200
\* with an empty list as data.
C29_DataNeverNull ==
    (Responded /\ (Invoked => FromRepository)) =>
        /\ ~DataIsNull
        /\ (Invoked /\ route = "info" /\ repoRet.err = NoError /\ repoRet.result.isNil) =>
              /\ resp.status = 200
              /\ resp.data.m = <<>>

\* ------------------------------------------------------------ catalog iteration: properties
\* The rows of the catalog query ended with a terminal error of the iteration,
\* after every delivered row had been scanned.
IterationFailed ==
    /\ catalog.queryErr = <<>>
    /\ catalog.iterErr
    /\ catalog.scanFailAt \notin 1..Len(catalog.data)

\* C30 If the iteration over the catalog rows ends with a terminal error, after
\* zero or more rows were read, GetProcedureInfo returns an error and a nil result,
\* not the truncated list without an error; the row set is closed on every exit.
C30_IterationErrorReturned ==
    InfoReturned =>
        /\ ~infoRowsOpen
        /\ IterationFailed => infoErr # NoError /\ infoResult.isNil
====
